---- MODULE Spec2Model ----
(***************************************************************************)
(* Payee name deduplication engine: name normalization, local and          *)
(* persistent grouping of duplicate names, duplicate-link emission.        *)
(*                                                                         *)
(* A string is a sequence of characters; a character is a one-code-unit    *)
(* token ("A", " ", "'"), with two named tokens for the non-ASCII code     *)
(* units the normalizer treats specially: "e_acute"/"E_ACUTE" (U+00E9 /    *)
(* U+00C9) and "ACUTE_MARK" (U+0301, a combining diacritical mark).        *)
(***************************************************************************)
EXTENDS Integers, Sequences, FiniteSets, TLC

VARIABLES
    \* ---- normalizer harness (SpecNorm) ----
    nIn,        \* the raw name handed to normalizePayeeName
    nOut,       \* normalizeName(nIn): [normalized, hash]
    nOut2,      \* normalizeName(nOut.normalized)
    nAlt,       \* a raw name differing from nIn in one inessential respect
    nAltOut,    \* normalizeName(nAlt)
    nPc,        \* position of the harness
    \* ---- deduplication engine (Spec) ----
    configured, \* supabase client is non-null
    store,      \* dedupe_links table: set of [canonical_normalized, duplicate_normalized]
    names,      \* the batch of raw names handed to the running operation
    op,         \* which operation is running
    pc,         \* position of the running operation
    existingMap,\* value returned by fetchDedupeMap
    remaining,  \* names deduplicateNames hands to localDeduplicateNames
    groups,     \* result map of deduplicateNames (insertion ordered)
    newGroups,  \* map returned by localDeduplicateNames inside deduplicateNames
    links,      \* the list handed to upsertDedupeLinks
    queue,      \* processQueue of processPayeeDeduplication
    results,    \* results of processPayeeDeduplication / enhancedProcessBatch
    opts,       \* options of the running operation
    fetchCalls, \* calls of fetchDedupeMap
    upsertCalls,\* calls of upsertDedupeLinks
    storeReads, \* select round-trips actually issued to the store
    storeWrites,\* upsert round-trips actually issued to the store
    outcome,    \* what the caller obtained: "none", "value" or "error"
    \* ---- calls with untyped arguments (SpecMalformed) ----
    jsOp,       \* the function called
    jsArgs,     \* its arguments, as JavaScript values
    jsOut,      \* how the call ended: [threw, value]
    \* ---- result lookup by name (SpecFind) ----
    fTarget,    \* payeeName handed to findResultByName
    fResults,   \* results handed to findResultByName
    fPreferred, \* preferredIndex
    fThreshold, \* similarityThreshold
    fReturn,    \* position in fResults of the result returned, 0 for null
    fPc,        \* position of the harness
    \* ---- string similarity (SpecSim) ----
    sA,         \* first string
    sB,         \* second string
    sWeights,   \* the weights handed to calculateCombinedSimilarity
    sOut,       \* [threw, scores]
    sPc,        \* position of the harness
    \* ---- batch job service (SpecJobs) ----
    storageType,      \* "localStorage", "sessionStorage" or "memory"
    storageAvailable, \* a browser storage passed the probe at construction
    stored,     \* the item under STORAGE_KEY in the chosen storage: [present, jobs]
    writesFail, \* setItem throws from now on
    jobs,       \* this.jobs: insertion-ordered map of id to stored job
    now,        \* Date.now()
    loaded,     \* the list last returned by loadJobs
    live,       \* the jobs added and not deleted since, each with its latest update
    jPc,        \* "idle", "loaded" right after loadJobs, "added" right after addJob
    \* ---- repeated deduplicateNames runs (SpecRuns) ----
    rConfigured,\* supabase client is non-null
    rStore,     \* dedupe_links table
    rCount,     \* runs made so far
    rPrev,      \* the run before the last one, when it was given the same batch
    rLast,      \* the last run: [names, groups, links, storeBefore, outcome]
    \* ---- unified storage service (SpecStorage) ----
    lsItems,    \* localStorage: key -> value
    memItems,   \* this.memoryStorage
    svFallback, \* this._isUsingFallback
    svStatus,   \* this._storageStatus
    svWritten,  \* key -> the value of the last setItem since the key was removed or cleared
    svRead,     \* the last getItem: [key, value]
    svPc,       \* "idle", or "read" right after getItem
    \* ---- automatic polling of one batch job (SpecPolling) ----
    pHook,      \* the hook in use
    pState,     \* pollingStates[jobId]
    pRef,       \* intervalRefs.current[jobId], 0 when absent
    pTimers,    \* timers scheduled and not yet fired or cleared
    pChecks,    \* pollJob calls awaiting checkBatchJobStatus
    pRefreshes, \* manualRefresh calls awaiting checkBatchJobStatus
    pNextId,    \* the next timer id
    pFailRun,   \* automatic status checks that failed in a row
    pStopped,   \* stopPolling returned, no startPolling or manualRefresh since
    pIssued,    \* a status check was issued while pStopped
    \* ---- withRetry (SpecRetry) ----
    wMaxRetries,\* maxRetries
    wAttempt,   \* attempt
    wPc,        \* "idle", "calling", "waiting", "returned" or "thrown"
    wLastError, \* lastError
    wOutcomes,  \* how each call of operation() ended, in order
    \* ---- the classification cache (SpecCache) ----
    cCache,     \* classificationCache: its entries [key, timestamp] in Map order
    cStored,    \* the localStorage item LOCAL_STORAGE_KEY
    cPersist,   \* persistCache
    cNow,       \* Date.now(), in ticks
    cLast       \* the last call on the cache, with the key it cached

normVars == <<nIn, nOut, nOut2, nAlt, nAltOut, nPc>>
engineVars == <<configured, store, names, op, pc, existingMap, remaining, groups, newGroups,
                links, queue, results, opts, fetchCalls, upsertCalls, storeReads,
                storeWrites, outcome>>
jsVars == <<jsOp, jsArgs, jsOut>>
findVars == <<fTarget, fResults, fPreferred, fThreshold, fReturn, fPc>>
simVars == <<sA, sB, sWeights, sOut, sPc>>
jobVars == <<storageType, storageAvailable, stored, writesFail, jobs, now, loaded, live, jPc>>
runVars == <<rConfigured, rStore, rCount, rPrev, rLast>>
earlyVars == <<normVars, engineVars, jsVars, findVars, simVars, jobVars>>
storageVars == <<lsItems, memItems, svFallback, svStatus, svWritten, svRead, svPc>>
pollVars == <<pHook, pState, pRef, pTimers, pChecks, pRefreshes, pNextId, pFailRun,
              pStopped, pIssued>>
retryVars == <<wMaxRetries, wAttempt, wPc, wLastError, wOutcomes>>
cacheVars == <<cCache, cStored, cPersist, cNow, cLast>>
lateVars == <<runVars, storageVars, pollVars, retryVars, cacheVars>>
vars == <<earlyVars, lateVars>>

\* what the actions of one component leave alone
outsideNorm == <<engineVars, jsVars, findVars, simVars, jobVars, lateVars>>
outsideEngine == <<normVars, jsVars, findVars, simVars, jobVars, lateVars>>
outsideJs == <<normVars, engineVars, findVars, simVars, jobVars, lateVars>>
outsideFind == <<normVars, engineVars, jsVars, simVars, jobVars, lateVars>>
outsideSim == <<normVars, engineVars, jsVars, findVars, jobVars, lateVars>>
outsideJobs == <<normVars, engineVars, jsVars, findVars, simVars, lateVars>>
outsideRuns == <<earlyVars, storageVars, pollVars, retryVars, cacheVars>>
outsideStorage == <<earlyVars, runVars, pollVars, retryVars, cacheVars>>
outsidePolling == <<earlyVars, runVars, storageVars, retryVars, cacheVars>>
outsideRetry == <<earlyVars, runVars, storageVars, pollVars, cacheVars>>
outsideCache == <<earlyVars, runVars, storageVars, pollVars, retryVars>>

-----------------------------------------------------------------------------
(* Generic sequence helpers *)

Max(a, b) == IF a >= b THEN a ELSE b
Min(a, b) == IF a <= b THEN a ELSE b

RECURSIVE Flatten(_)
Flatten(ss) == IF ss = <<>> THEN <<>> ELSE Head(ss) \o Flatten(Tail(ss))

RECURSIVE MapSeq(_, _)
MapSeq(F(_), s) == IF s = <<>> THEN <<>> ELSE <<F(Head(s))>> \o MapSeq(F, Tail(s))

\* least element of a set of positions, 0 when it is empty
FirstOf(S) == IF S = {} THEN 0 ELSE CHOOSE i \in S : \A j \in S : i <= j

\* s[i..] starts with w
StartsAt(s, i, w) ==
    /\ i + Len(w) - 1 <= Len(s)
    /\ \A k \in 1..Len(w) : s[i + k - 1] = w[k]

-----------------------------------------------------------------------------
(* Character tables *)

LowerLetters == <<"a","b","c","d","e","f","g","h","i","j","k","l","m",
                  "n","o","p","q","r","s","t","u","v","w","x","y","z">>
UpperLetters == <<"A","B","C","D","E","F","G","H","I","J","K","L","M",
                  "N","O","P","Q","R","S","T","U","V","W","X","Y","Z">>
Digits == {"0","1","2","3","4","5","6","7","8","9"}

Range(s) == {s[i] : i \in DOMAIN s}

\* String.prototype.toUpperCase, one code unit at a time
ToUpperChar(c) ==
    IF c \in Range(LowerLetters)
    THEN UpperLetters[CHOOSE i \in DOMAIN LowerLetters : LowerLetters[i] = c]
    ELSE IF c = "e_acute" THEN "E_ACUTE" ELSE c

\* String.prototype.normalize('NFD'), one code unit at a time
NFDChar(c) ==
    IF c = "E_ACUTE" THEN <<"E", "ACUTE_MARK">>
    ELSE IF c = "e_acute" THEN <<"e", "ACUTE_MARK">>
    ELSE <<c>>

\* the range U+0300..U+036F of combining diacritical marks
CombiningMarks == {"ACUTE_MARK"}

\* the punctuation class of the normalizer ("BACKTICK" stands for U+0060)
PunctuationClass == {"-", "\\", "'", ",", ".", "/", "#", "!", "$", "%", "^", "&",
                     "*", ";", ":", "{", "}", "=", "_", "BACKTICK", "~", "(", ")"}

\* \s
Whitespace == {" ", "\t"}

\* \w, the complement of which delimits \b
WordChars == Range(LowerLetters) \cup Range(UpperLetters) \cup Digits \cup {"_"}

-----------------------------------------------------------------------------
(* NameNormalizer: normalizePayeeName and normalizeName *)

UpperCase(s) == MapSeq(ToUpperChar, s)

NFD(s) == Flatten(MapSeq(NFDChar, s))

IsNotMark(c) == c \notin CombiningMarks
StripMarks(s) == SelectSeq(s, IsNotMark)

\* .replace(<punctuation class>/g, ' ')
ReplacePunctuation(s) ==
    [i \in DOMAIN s |-> IF s[i] \in PunctuationClass THEN " " ELSE s[i]]

\* .replace(/\s+/g, ' ')
RECURSIVE CollapseWhitespace(_)
CollapseWhitespace(s) ==
    IF s = <<>> THEN <<>>
    ELSE IF Head(s) \in Whitespace
         THEN IF Len(s) >= 2 /\ s[2] \in Whitespace
              THEN CollapseWhitespace(Tail(s))
              ELSE <<" ">> \o CollapseWhitespace(Tail(s))
         ELSE <<Head(s)>> \o CollapseWhitespace(Tail(s))

RECURSIVE TrimLeft(_)
TrimLeft(s) ==
    IF s # <<>> /\ Head(s) \in Whitespace THEN TrimLeft(Tail(s)) ELSE s

RECURSIVE TrimRight(_)
TrimRight(s) ==
    IF s # <<>> /\ s[Len(s)] \in Whitespace
    THEN TrimRight(SubSeq(s, 1, Len(s) - 1)) ELSE s

\* String.prototype.trim
Trim(s) == TrimRight(TrimLeft(s))

\* the alternation (LLC|INC|CORP|LTD|LP|LLP|PC|PLLC)
ShortSuffixes == { <<"L","L","C">>, <<"I","N","C">>, <<"C","O","R","P">>,
                   <<"L","T","D">>, <<"L","P">>, <<"L","L","P">>, <<"P","C">>,
                   <<"P","L","L","C">> }

\* the words removed wherever they stand
LongSuffixes == << <<"C","O","R","P","O","R","A","T","I","O","N">>,
                   <<"I","N","C","O","R","P","O","R","A","T","E","D">>,
                   <<"L","I","M","I","T","E","D">>,
                   <<"C","O","M","P","A","N","Y">> >>

\* \b at the gap before s[i] (i = Len(s) + 1 is the end of the string)
WordBoundary(s, i) ==
    LET before == i > 1 /\ s[i - 1] \in WordChars
        after  == i <= Len(s) /\ s[i] \in WordChars
    IN before # after

\* start positions at which /\b(LLC|...|PLLC)\b\.?$/ matches
SuffixMatches(s) ==
    { i \in 1..Len(s) :
        /\ WordBoundary(s, i)
        /\ \E w \in ShortSuffixes :
             /\ StartsAt(s, i, w)
             /\ WordBoundary(s, i + Len(w))
             /\ \/ i + Len(w) = Len(s) + 1
                \/ i + Len(w) = Len(s) /\ s[Len(s)] = "." }

\* .replace(/\b(LLC|INC|CORP|LTD|LP|LLP|PC|PLLC)\b\.?$/g, '')
StripTrailingSuffix(s) ==
    IF SuffixMatches(s) = {} THEN s
    ELSE LET i == CHOOSE k \in SuffixMatches(s) : \A m \in SuffixMatches(s) : k <= m
         IN SubSeq(s, 1, i - 1)

\* .replace(/\bW\b/g, '') scanning from position i
RECURSIVE RemoveWordFrom(_, _, _)
RemoveWordFrom(s, w, i) ==
    IF i > Len(s) THEN <<>>
    ELSE IF /\ StartsAt(s, i, w)
            /\ WordBoundary(s, i)
            /\ WordBoundary(s, i + Len(w))
         THEN RemoveWordFrom(s, w, i + Len(w))
         ELSE <<s[i]>> \o RemoveWordFrom(s, w, i + 1)

RemoveWord(s, w) == RemoveWordFrom(s, w, 1)

\* the four chained whole-word removals
RemoveLongSuffixes(s) ==
    RemoveWord(RemoveWord(RemoveWord(RemoveWord(s,
        LongSuffixes[1]), LongSuffixes[2]), LongSuffixes[3]), LongSuffixes[4])

\* the first chain: case, diacritics, punctuation, whitespace
CleanName(name) ==
    Trim(CollapseWhitespace(ReplacePunctuation(StripMarks(NFD(UpperCase(name))))))

\* the second chain: legal-entity terms
StripEntityTerms(s) == Trim(RemoveLongSuffixes(StripTrailingSuffix(s)))

normalizePayeeName(name) ==
    IF name = <<>> THEN <<>> ELSE StripEntityTerms(CleanName(name))

\* createHash('sha256').update(s).digest('hex'): a fixed injective digest
Sha256(s) == <<"sha256", s>>

normalizeName(name) ==
    LET n == normalizePayeeName(name) IN [normalized |-> n, hash |-> Sha256(n)]

-----------------------------------------------------------------------------
(* Inputs of the normalizer harness *)

\* longest raw name of the harness, in pieces
MaxPieces == 3

\* fragments raw names are assembled from
Pieces == { <<"A">>, <<"b">>, <<" ">>, <<"'">>, <<".">>, <<"e_acute">>,
            <<" ","I","N","C">>, <<" ","L","L","C">>, <<"L","L","C">>,
            <<" ","C","O","M","P","A","N","Y">>, <<" ","C","o","r","p">> }

RECURSIVE PieceSeqs(_)
PieceSeqs(n) ==
    IF n = 0 THEN { <<>> }
    ELSE LET shorter == PieceSeqs(n - 1)
         IN shorter \cup { ps \o <<p>> : ps \in shorter, p \in Pieces }

RawNames == { Flatten(ps) : ps \in PieceSeqs(MaxPieces) }

\* the other case of a letter
SwapCase(c) ==
    IF c \in Range(LowerLetters) THEN ToUpperChar(c)
    ELSE IF c \in Range(UpperLetters)
         THEN LowerLetters[CHOOSE i \in DOMAIN UpperLetters : UpperLetters[i] = c]
         ELSE c

\* the same letter with or without its diacritic
SwapDiacritic(c) ==
    CASE c = "e" -> "e_acute"
      [] c = "E" -> "E_ACUTE"
      [] c = "e_acute" -> "e"
      [] c = "E_ACUTE" -> "E"
      [] OTHER -> c

AllLegalSuffixes == ShortSuffixes \cup Range(LongSuffixes)

\* names that differ from x in letter case only
CaseVariants(x) ==
    { [x EXCEPT ![i] = SwapCase(x[i])] : i \in DOMAIN x } \ {x}

\* names that differ from x in diacritics only
DiacriticVariants(x) ==
    ({ [x EXCEPT ![i] = SwapDiacritic(x[i])] : i \in DOMAIN x } \ {x})
    \cup { SubSeq(x, 1, i) \o <<"ACUTE_MARK">> \o SubSeq(x, i + 1, Len(x)) :
             i \in { k \in DOMAIN x : x[k] \in WordChars } }

\* names that differ from x in characters of the punctuation class only
PunctuationVariants(x) ==
    { [x EXCEPT ![i] = p] :
        i \in { k \in DOMAIN x : x[k] \in PunctuationClass },
        p \in {"-", "'", ",", " "} } \ {x}

\* names that differ from x in a trailing legal suffix only
SuffixVariants(x) == { x \o <<" ">> \o w : w \in AllLegalSuffixes }

Variants(x) ==
    { [kind |-> "case", name |-> y] : y \in CaseVariants(x) }
    \cup { [kind |-> "diacritic", name |-> y] : y \in DiacriticVariants(x) }
    \cup { [kind |-> "punctuation", name |-> y] : y \in PunctuationVariants(x) }
    \cup { [kind |-> "suffix", name |-> y] : y \in SuffixVariants(x) }

NoName == [kind |-> "none", name |-> <<>>]
NoNorm == [normalized |-> <<>>, hash |-> <<>>]

NormIdle ==
    /\ nIn = <<>>
    /\ nOut = NoNorm
    /\ nOut2 = NoNorm
    /\ nAlt = NoName
    /\ nAltOut = NoNorm
    /\ nPc = "off"

NormInit ==
    /\ nIn \in RawNames
    /\ nOut = NoNorm
    /\ nOut2 = NoNorm
    /\ nAlt = NoName
    /\ nAltOut = NoNorm
    /\ nPc = "input"

\* normalizeName(nIn)
NormalizeOnce ==
    /\ nPc = "input"
    /\ nOut' = normalizeName(nIn)
    /\ nPc' = "normalized"
    /\ UNCHANGED <<nIn, nOut2, nAlt, nAltOut>>
    /\ UNCHANGED outsideNorm

\* normalizeName(normalizeName(nIn).normalized)
NormalizeAgain ==
    /\ nPc = "normalized"
    /\ nOut2' = normalizeName(nOut.normalized)
    /\ nPc' = "renormalized"
    /\ UNCHANGED <<nIn, nOut, nAlt, nAltOut>>
    /\ UNCHANGED outsideNorm

\* normalizeName of a name that differs from nIn in one inessential respect
NormalizeVariant ==
    /\ nPc = "normalized"
    /\ \E v \in Variants(nIn) :
         /\ nAlt' = v
         /\ nAltOut' = normalizeName(v.name)
    /\ nPc' = "compared"
    /\ UNCHANGED <<nIn, nOut, nOut2>>
    /\ UNCHANGED outsideNorm

-----------------------------------------------------------------------------
(* StringSimilarity: four metrics and their weighted combination.          *)
(* A score is a percentage in fixed point: Scale units per percent point,  *)
(* rounded down.                                                           *)

Scale == 1000
Hundred == 100 * Scale

Min3(a, b, c) == Min(a, Min(b, c))

\* one row of the edit-distance table, built left to right
RECURSIVE BuildRow(_, _, _, _)
BuildRow(prev, ch, b, cur) ==
    IF Len(cur) = Len(b) + 1 THEN cur
    ELSE LET j == Len(cur)
             cost == IF ch = b[j] THEN 0 ELSE 1
         IN BuildRow(prev, ch, b,
                Append(cur, Min3(prev[j + 1] + 1, cur[j] + 1, prev[j] + cost)))

RECURSIVE LevRows(_, _, _, _)
LevRows(a, b, i, prev) ==
    IF i > Len(a) THEN prev[Len(b) + 1]
    ELSE LevRows(a, b, i + 1, BuildRow(prev, a[i], b, <<i>>))

editDistance(a, b) == LevRows(a, b, 1, [j \in 1..(Len(b) + 1) |-> j - 1])

levenshteinSimilarity(a, b) ==
    IF a = b THEN Hundred
    ELSE IF a = <<>> \/ b = <<>> THEN 0
    ELSE (Hundred * (Max(Len(a), Len(b)) - editDistance(a, b))) \div Max(Len(a), Len(b))

\* Jaro matching: each a[i], in order, takes the first unused equal b[j]
\* within the window; the result is the sequence of matched pairs <<i, j>>
RECURSIVE JaroMatches(_, _, _, _, _, _)
JaroMatches(a, b, w, i, used, pairs) ==
    IF i > Len(a) THEN pairs
    ELSE LET cand == { j \in Max(1, i - w)..Min(Len(b), i + w) :
                         j \notin used /\ b[j] = a[i] }
         IN IF cand = {} THEN JaroMatches(a, b, w, i + 1, used, pairs)
            ELSE LET j == CHOOSE k \in cand : \A m \in cand : k <= m
                 IN JaroMatches(a, b, w, i + 1, used \cup {j}, Append(pairs, <<i, j>>))

RECURSIVE SortedSeq(_)
SortedSeq(S) ==
    IF S = {} THEN <<>>
    ELSE LET x == CHOOSE k \in S : \A m \in S : k <= m
         IN <<x>> \o SortedSeq(S \ {x})

\* length of the common prefix, at most cap
RECURSIVE CommonPrefix(_, _, _)
CommonPrefix(a, b, cap) ==
    IF cap = 0 \/ a = <<>> \/ b = <<>> \/ Head(a) # Head(b) THEN 0
    ELSE 1 + CommonPrefix(Tail(a), Tail(b), cap - 1)

\* half the number of matched characters that stand in a different order
Transpositions(a, b, pairs, js) ==
    Cardinality({ k \in DOMAIN pairs : a[pairs[k][1]] # b[js[k]] }) \div 2

\* (m/|a| + m/|b| + (m - t)/m) / 3 as a percentage
JaroScore(la, lb, m, t) ==
    IF m = 0 THEN 0
    ELSE (Hundred * (m * m * lb + m * m * la + (m - t) * la * lb)) \div (3 * la * lb * m)

\* the common-prefix boost: 0.1 per matching prefix character
WinklerBoost(jaro, p) == jaro + (p * (Hundred - jaro)) \div 10

JaroOfPairs(a, b, pairs) ==
    JaroScore(Len(a), Len(b), Len(pairs),
              Transpositions(a, b, pairs, SortedSeq({ pairs[k][2] : k \in DOMAIN pairs })))

jaroWinklerSimilarity(a, b) ==
    IF a = b THEN Hundred
    ELSE IF a = <<>> \/ b = <<>> THEN 0
    ELSE WinklerBoost(
           JaroOfPairs(a, b,
               JaroMatches(a, b, Max(0, (Max(Len(a), Len(b)) \div 2) - 1), 1, {}, <<>>)),
           CommonPrefix(a, b, 4))

bigrams(s) == { <<s[i], s[i + 1]>> : i \in 1..(Len(s) - 1) }

\* 2 |A n B| / (|A| + |B|) as a percentage
DiceOfSets(A, B) ==
    (Hundred * 2 * Cardinality(A \cap B)) \div (Cardinality(A) + Cardinality(B))

\* variant: identical strings without bigrams scored as a mismatch
DiceOfBigramsOnly(a, b) ==
    IF Len(a) < 2 \/ Len(b) < 2 THEN (IF a = <<>> /\ b = <<>> THEN Hundred ELSE 0)
    ELSE DiceOfSets(bigrams(a), bigrams(b))

diceCoefficient(a, b) ==
    IF a = b THEN Hundred
    ELSE IF Len(a) < 2 \/ Len(b) < 2 THEN 0
    ELSE DiceOfSets(bigrams(a), bigrams(b))

\* split on runs of whitespace
RECURSIVE Tokens(_, _)
Tokens(s, cur) ==
    IF s = <<>> THEN (IF cur = <<>> THEN <<>> ELSE <<cur>>)
    ELSE IF Head(s) \in Whitespace
         THEN (IF cur = <<>> THEN <<>> ELSE <<cur>>) \o Tokens(Tail(s), <<>>)
         ELSE Tokens(Tail(s), Append(cur, Head(s)))

\* code-unit order of the characters that reach the comparison
CharOrder == <<" ", "'", "-", ".", "0","1","2","3","4","5","6","7","8","9", "@">>
             \o UpperLetters \o <<"_">> \o LowerLetters \o <<"E_ACUTE", "e_acute", "ACUTE_MARK">>

Rank(c) == CHOOSE i \in DOMAIN CharOrder : CharOrder[i] = c

\* a sorts at or before b
RECURSIVE LexLeq(_, _)
LexLeq(a, b) ==
    IF a = <<>> THEN TRUE
    ELSE IF b = <<>> THEN FALSE
    ELSE IF Head(a) = Head(b) THEN LexLeq(Tail(a), Tail(b))
    ELSE Rank(Head(a)) < Rank(Head(b))

RECURSIVE InsertSorted(_, _)
InsertSorted(t, sorted) ==
    IF sorted = <<>> THEN <<t>>
    ELSE IF LexLeq(t, Head(sorted)) THEN <<t>> \o sorted
    ELSE <<Head(sorted)>> \o InsertSorted(t, Tail(sorted))

RECURSIVE SortTokens(_)
SortTokens(ts) ==
    IF ts = <<>> THEN <<>> ELSE InsertSorted(Head(ts), SortTokens(Tail(ts)))

RECURSIVE JoinTokens(_)
JoinTokens(ts) ==
    IF ts = <<>> THEN <<>>
    ELSE IF Len(ts) = 1 THEN Head(ts)
    ELSE Head(ts) \o <<" ">> \o JoinTokens(Tail(ts))

\* both empty scores 100 and one empty scores 0 on every metric; otherwise
\* the Levenshtein similarity of the rejoined sorted tokens
tokenSortRatio(a, b) ==
    IF a = <<>> /\ b = <<>> THEN Hundred
    ELSE IF a = <<>> \/ b = <<>> THEN 0
    ELSE levenshteinSimilarity(JoinTokens(SortTokens(Tokens(a, <<>>))),
                               JoinTokens(SortTokens(Tokens(b, <<>>))))

\* DEFAULT_SIMILARITY_WEIGHTS, in hundredths
DefaultWeights == [levenshtein |-> 25, jaroWinkler |-> 35, dice |-> 25, tokenSort |-> 15]

\* sum of the four weights, in hundredths
WeightSum(w) == w.levenshtein + w.jaroWinkler + w.dice + w.tokenSort

\* combined = sum of metric * weight
WeightedScoreSet(l, j, d, t, w) ==
    [levenshtein |-> l, jaroWinkler |-> j, dice |-> d, tokenSort |-> t,
     combined |-> (w.levenshtein * l + w.jaroWinkler * j
                   + w.dice * d + w.tokenSort * t) \div 100]

\* the score set of four metric scores under the default weights
ScoreSet(l, j, d, t) == WeightedScoreSet(l, j, d, t, DefaultWeights)

calculateCombinedSimilarity(a, b) ==
    ScoreSet(levenshteinSimilarity(a, b), jaroWinklerSimilarity(a, b),
             diceCoefficient(a, b), tokenSortRatio(a, b))

\* variant: weights that do not sum to 1 silently renormalized
RenormalizingSimilarity(a, b, w) ==
    [threw |-> FALSE,
     scores |-> WeightedScoreSet(levenshteinSimilarity(a, b), jaroWinklerSimilarity(a, b),
                                 diceCoefficient(a, b), tokenSortRatio(a, b),
                                 IF WeightSum(w) = 100 THEN w ELSE DefaultWeights)]

\* calculateCombinedSimilarity(a, b, weights): fails when the weights do not
\* sum to 1
calculateCombinedSimilarityWith(a, b, w) ==
    IF WeightSum(w) # 100 THEN [threw |-> TRUE, scores |-> <<>>]
    ELSE [threw |-> FALSE,
          scores |-> WeightedScoreSet(levenshteinSimilarity(a, b),
                                      jaroWinklerSimilarity(a, b),
                                      diceCoefficient(a, b), tokenSortRatio(a, b), w)]

-----------------------------------------------------------------------------
(* Insertion-ordered maps (JavaScript Map): sequences of [key, val] *)

MapHas(m, k) == \E i \in DOMAIN m : m[i].key = k

MapGet(m, k) == m[CHOOSE i \in DOMAIN m : m[i].key = k].val

MapKeys(m) == [i \in DOMAIN m |-> m[i].key]

\* m.set(k, v)
MapSet(m, k, v) ==
    IF MapHas(m, k)
    THEN [i \in DOMAIN m |-> IF m[i].key = k THEN [key |-> k, val |-> v] ELSE m[i]]
    ELSE Append(m, [key |-> k, val |-> v])

\* if (!m.has(k)) m.set(k, []); m.get(k).push(x)
MapPush(m, k, x) ==
    IF MapHas(m, k) THEN MapSet(m, k, Append(MapGet(m, k), x))
    ELSE Append(m, [key |-> k, val |-> <<x>>])

RECURSIVE MapPushAll(_, _, _)
MapPushAll(m, k, xs) ==
    IF xs = <<>> THEN m ELSE MapPushAll(MapPush(m, k, Head(xs)), k, Tail(xs))

-----------------------------------------------------------------------------
(* PersistentDedupeStore: the dedupe_links table behind lib/backend *)

Link(c, d) == [canonical_normalized |-> c, duplicate_normalized |-> d]

\* .upsert(links, { onConflict: 'duplicate_normalized' }), row by row
RECURSIVE UpsertRows(_, _)
UpsertRows(table, ls) ==
    IF ls = <<>> THEN table
    ELSE UpsertRows(
           { r \in table : r.duplicate_normalized # Head(ls).duplicate_normalized }
              \cup { Head(ls) },
           Tail(ls))

\* upsertDedupeLinks contacts the store unless it returns early
UpsertContacts(isConfigured, ls) == isConfigured /\ ls # <<>>

\* fetchDedupeMap contacts the store unless it returns early
FetchContacts(isConfigured, normalizedNames) == isConfigured /\ normalizedNames # <<>>

\* the Map fetchDedupeMap resolves to: duplicate_normalized -> canonical_normalized
\* of the rows whose duplicate_normalized is among the names asked for
fetchDedupeMap(isConfigured, table, normalizedNames) ==
    IF ~FetchContacts(isConfigured, normalizedNames) THEN {}
    ELSE { r \in table : r.duplicate_normalized \in Range(normalizedNames) }

\* existingMap.get(norm), "undefined" when absent
ExistingGet(map, norm) ==
    IF \E r \in map : r.duplicate_normalized = norm
    THEN (CHOOSE r \in map : r.duplicate_normalized = norm).canonical_normalized
    ELSE "undefined"

\* if (canonical): undefined and the empty string are falsy
Truthy(v) == v # "undefined" /\ v # <<>>

-----------------------------------------------------------------------------
(* DeduplicationEngine, persistent variant: nameProcessing.ts *)

NAME_SIMILARITY_THRESHOLD == 85

\* the comparison areSimilarNames makes once both names are normalized
SimilarNormalized(normalized1, normalized2) ==
    IF normalized1 = normalized2 THEN TRUE
    ELSE jaroWinklerSimilarity(normalized1, normalized2)
           >= NAME_SIMILARITY_THRESHOLD * Scale

areSimilarNames(name1, name2) ==
    SimilarNormalized(normalizePayeeName(name1), normalizePayeeName(name2))

\* first pass: exactMatches, normalized form -> raw names, in input order
RECURSIVE ExactMatches(_, _)
ExactMatches(ns, acc) ==
    IF ns = <<>> THEN acc
    ELSE ExactMatches(Tail(ns), MapPush(acc, normalizePayeeName(Head(ns)), Head(ns)))

\* variant: the loop without its break, so that the last similar canonical wins
LastSimilar(result, currentNorm) ==
    LET hits == { i \in DOMAIN result : areSimilarNames(currentNorm, result[i].key) }
    IN IF hits = {} THEN 0 ELSE CHOOSE i \in hits : \A j \in hits : i >= j

\* index of the first established canonical similar to currentNorm, 0 if none
\* (the for..of over result.entries() with its break)
FirstSimilar(result, currentNorm) ==
    FirstOf({ i \in DOMAIN result : areSimilarNames(currentNorm, result[i].key) })

\* the body of the second pass for one unique normalized form: join the
\* group found (hit), or found a new group when there is none
PlaceUnique(result, currentNorm, originalNames, hit) ==
    IF hit # 0
    THEN MapPushAll(result, result[hit].key, originalNames)
    ELSE MapSet(result, currentNorm, originalNames)

\* second pass over uniqueNormalized[i..]
RECURSIVE FuzzyPass(_, _, _, _)
FuzzyPass(exactMatches, uniqueNormalized, i, result) ==
    IF i > Len(uniqueNormalized) THEN result
    ELSE FuzzyPass(exactMatches, uniqueNormalized, i + 1,
            PlaceUnique(result, uniqueNormalized[i],
                        MapGet(exactMatches, uniqueNormalized[i]),
                        FirstSimilar(result, uniqueNormalized[i])))

SecondPass(exactMatches) == FuzzyPass(exactMatches, MapKeys(exactMatches), 1, <<>>)

localDeduplicateNames(ns) == SecondPass(ExactMatches(ns, <<>>))

\* the forEach over normalized: names with a stored canonical go to result,
\* the others to remaining
\* variant: the fetched map ignored, every name grouped locally
SplitNone(acc, name, canonical) == [acc EXCEPT !.remaining = Append(@, name)]

SplitOne(acc, name, canonical) ==
    IF Truthy(canonical)
    THEN [acc EXCEPT !.result = MapPush(@, canonical, name)]
    ELSE [acc EXCEPT !.remaining = Append(@, name)]

RECURSIVE SplitByStore(_, _, _)
SplitByStore(ns, map, acc) ==
    IF ns = <<>> THEN acc
    ELSE SplitByStore(Tail(ns), map,
            SplitOne(acc, Head(ns), ExistingGet(map, normalizePayeeName(Head(ns)))))

\* variant: result.set(canonical, group) in place of the push into the group
RECURSIVE MergeGroupsOverwriting(_, _)
MergeGroupsOverwriting(result, ng) ==
    IF ng = <<>> THEN result
    ELSE MergeGroupsOverwriting(MapSet(result, Head(ng).key, Head(ng).val), Tail(ng))

\* newGroups.forEach: merge the new groups into result
RECURSIVE MergeGroups(_, _)
MergeGroups(result, ng) ==
    IF ng = <<>> THEN result
    ELSE MergeGroups(MapPushAll(result, Head(ng).key, Head(ng).val), Tail(ng))

\* links of one group: one per member whose normalized form is not the canonical
\* variant: a link for every member of a new group, its canonical included
LinkAlways(canonical, dupNorm) == <<Link(canonical, dupNorm)>>

LinkIfDuplicate(canonical, dupNorm) ==
    IF dupNorm # canonical THEN <<Link(canonical, dupNorm)>> ELSE <<>>

RECURSIVE GroupLinks(_, _)
GroupLinks(canonical, members) ==
    IF members = <<>> THEN <<>>
    ELSE LinkIfDuplicate(canonical, normalizePayeeName(Head(members)))
         \o GroupLinks(canonical, Tail(members))

RECURSIVE NewLinks(_)
NewLinks(ng) ==
    IF ng = <<>> THEN <<>>
    ELSE GroupLinks(Head(ng).key, Head(ng).val) \o NewLinks(Tail(ng))

\* the body of deduplicateNames between its two awaits
DedupeLocals(map, split, ng) ==
    [existingMap |-> map,
     result      |-> MergeGroups(split.result, ng),
     newGroups   |-> ng,
     remaining   |-> split.remaining,
     links       |-> NewLinks(ng)]

DedupeGroup(map, split) == DedupeLocals(map, split, localDeduplicateNames(split.remaining))

DedupeCompute(ns, map) ==
    DedupeGroup(map, SplitByStore(ns, map, [result |-> <<>>, remaining |-> <<>>]))

-----------------------------------------------------------------------------
(* DeduplicationEngine, in-memory variant: batchDeduplication.ts *)

\* findFuzzyMatch: the first duplicateCache entry whose key reaches the threshold
FuzzyHits(normalizedName, duplicateCache, similarityThreshold) ==
    { k \in DOMAIN duplicateCache :
        calculateCombinedSimilarity(normalizedName, duplicateCache[k].key).combined
          >= similarityThreshold * Scale }

findFuzzyMatch(normalizedName, duplicateCache, similarityThreshold) ==
    FirstOf(FuzzyHits(normalizedName, duplicateCache, similarityThreshold))

\* one iteration of the for loop for a non-blank row i (1-based here, i - 1 in
\* the program); match is findFuzzyMatch's answer, 0 when fuzzy matching is off
PpdPlace(st, name, normalizedName, i, match) ==
    IF normalizedName \in st.processed /\ MapHas(st.duplicateCache, normalizedName)
    THEN [st EXCEPT !.results = Append(@,
            [MapGet(st.duplicateCache, normalizedName) EXCEPT
                !.id = Append(@, <<"dup", i - 1>>), !.rowIndex = i - 1])]
    ELSE IF match # 0
    THEN [st EXCEPT
            !.results = Append(@,
                [st.duplicateCache[match].val EXCEPT
                    !.id = Append(@, <<"fuzzy", i - 1>>),
                    !.payeeName = name, !.rowIndex = i - 1]),
            !.dedupeLinks = Append(@, Link(st.duplicateCache[match].key, normalizedName))]
    ELSE [st EXCEPT
            !.processQueue = Append(@, [name |-> name, normalizedName |-> normalizedName,
                                         originalIndex |-> i - 1]),
            !.processed = @ \cup {normalizedName}]

PpdNormalized(st, name, normalizedName, i, useFuzzyMatching, similarityThreshold) ==
    PpdPlace(st, name, normalizedName, i,
             IF useFuzzyMatching
             THEN findFuzzyMatch(normalizedName, st.duplicateCache, similarityThreshold)
             ELSE 0)

\* variant: the loop without its blank-name skip
PpdKeepingBlank(st, name, i, useFuzzyMatching, similarityThreshold) ==
    PpdNormalized(st, name, normalizePayeeName(name), i,
                  useFuzzyMatching, similarityThreshold)

PpdTrimmed(st, name, i, useFuzzyMatching, similarityThreshold) ==
    IF name = <<>> THEN st
    ELSE PpdNormalized(st, name, normalizePayeeName(name), i,
                       useFuzzyMatching, similarityThreshold)

PpdStep(st, rawName, i, useFuzzyMatching, similarityThreshold) ==
    PpdTrimmed(st, Trim(rawName), i, useFuzzyMatching, similarityThreshold)

RECURSIVE PpdLoop(_, _, _, _, _)
PpdLoop(payeeNames, i, st, useFuzzyMatching, similarityThreshold) ==
    IF i > Len(payeeNames) THEN st
    ELSE PpdLoop(payeeNames, i + 1,
                 PpdStep(st, payeeNames[i], i, useFuzzyMatching, similarityThreshold),
                 useFuzzyMatching, similarityThreshold)

\* the state processPayeeDeduplication has built when its loop ends
processPayeeDeduplication(payeeNames, useFuzzyMatching, similarityThreshold) ==
    PpdLoop(payeeNames, 1,
            [results |-> <<>>, processed |-> {}, duplicateCache |-> <<>>,
             processQueue |-> <<>>, dedupeLinks |-> <<>>],
            useFuzzyMatching, similarityThreshold)

-----------------------------------------------------------------------------
(* Unified batch processor: enhancedProcessBatch *)

\* /bank/i.test(name)
IsBank(name) ==
    \E i \in DOMAIN name : StartsAt(UpperCase(name), i, <<"B","A","N","K">>)

EpbResults(payeeNames) ==
    [i \in DOMAIN payeeNames |->
        [id |-> <<"payee", i - 1>>, payeeName |-> payeeNames[i], rowIndex |-> i - 1,
         classification |-> IF IsBank(payeeNames[i]) THEN "Business" ELSE "Individual"]]

\* the inner loop: j from i + 1
RECURSIVE EpbInner(_, _, _, _)
EpbInner(normalized, i, j, similarityThreshold) ==
    IF j > Len(normalized) THEN <<>>
    ELSE (IF calculateCombinedSimilarity(normalized[i], normalized[j]).combined
               >= similarityThreshold * Scale
          THEN <<Link(normalized[i], normalized[j])>> ELSE <<>>)
         \o EpbInner(normalized, i, j + 1, similarityThreshold)

RECURSIVE EpbOuter(_, _, _)
EpbOuter(normalized, i, similarityThreshold) ==
    IF i > Len(normalized) THEN <<>>
    ELSE EpbInner(normalized, i, i + 1, similarityThreshold)
         \o EpbOuter(normalized, i + 1, similarityThreshold)

\* the dedupeLinks enhancedProcessBatch builds; none outside the v3 branch
EpbLinks(payeeNames, o) ==
    IF o.strategy = "v3" /\ o.useFuzzyMatching /\ o.thresholdIsNumber
    THEN EpbOuter(MapSeq(UpperCase, payeeNames), 1, o.similarityThreshold)
    ELSE <<>>

-----------------------------------------------------------------------------
(* Result lookup by name: findResultByName (batchExporter.ts).  A result   *)
(* is [payeeName, rowIndex]; the value returned is the position of the     *)
(* result in the list handed in, 0 for null.                               *)

\* preferredIndex === undefined
NoPreferredIndex == -1

\* similarityThreshold: number = 80
DefaultFindThreshold == 80

\* results.filter(...): positions of the exact matches
ExactResults(normalizedTargetName, rs) ==
    { p \in DOMAIN rs :
        /\ rs[p].payeeName # <<>>
        /\ normalizePayeeName(rs[p].payeeName) = normalizedTargetName }

\* results.map(...).filter(...): the candidates, in list order
RECURSIVE FuzzyCandidatesFrom(_, _, _, _)
FuzzyCandidatesFrom(normalizedTargetName, rs, similarityThreshold, p) ==
    IF p > Len(rs) THEN <<>>
    ELSE (IF rs[p].payeeName = <<>> THEN <<>>
          ELSE IF calculateCombinedSimilarity(normalizePayeeName(rs[p].payeeName),
                                              normalizedTargetName).combined
                    >= similarityThreshold * Scale
               THEN << [result |-> p,
                        similarity |->
                          calculateCombinedSimilarity(
                              normalizePayeeName(rs[p].payeeName),
                              normalizedTargetName).combined] >>
               ELSE <<>>)
         \o FuzzyCandidatesFrom(normalizedTargetName, rs, similarityThreshold, p + 1)

\* .sort((a, b) => b.similarity - a.similarity): stable, descending
RECURSIVE InsertDescending(_, _)
InsertDescending(item, sorted) ==
    IF sorted = <<>> THEN <<item>>
    ELSE IF item.similarity >= Head(sorted).similarity THEN <<item>> \o sorted
    ELSE <<Head(sorted)>> \o InsertDescending(item, Tail(sorted))

\* variant: the candidates left in list order
Unsorted(items) == items

RECURSIVE SortDescending(_)
SortDescending(items) ==
    IF items = <<>> THEN <<>>
    ELSE InsertDescending(Head(items), SortDescending(Tail(items)))

FuzzyCandidates(normalizedTargetName, rs, similarityThreshold) ==
    SortDescending(FuzzyCandidatesFrom(normalizedTargetName, rs, similarityThreshold, 1))

\* variant: the preferred row ignored
PickExactFirst(exactMatches, rs, preferredIndex) == FirstOf(exactMatches)

\* exactMatches.find(r => r.rowIndex === preferredIndex), else exactMatches[0]
PickExact(exactMatches, rs, preferredIndex) ==
    IF /\ preferredIndex # NoPreferredIndex
       /\ \E p \in exactMatches : rs[p].rowIndex = preferredIndex
    THEN FirstOf({ p \in exactMatches : rs[p].rowIndex = preferredIndex })
    ELSE FirstOf(exactMatches)

\* variant: a forced fallback to the first result when nothing clears the
\* threshold
PickFuzzyForced(fuzzyCandidates, rs, preferredIndex) ==
    IF fuzzyCandidates # <<>> THEN fuzzyCandidates[1].result
    ELSE IF rs = <<>> THEN 0 ELSE 1

\* fuzzyCandidates.find(c => c.result.rowIndex === preferredIndex), else [0]
PickFuzzy(fuzzyCandidates, rs, preferredIndex) ==
    IF fuzzyCandidates = <<>> THEN 0
    ELSE IF /\ preferredIndex # NoPreferredIndex
            /\ \E k \in DOMAIN fuzzyCandidates :
                 rs[fuzzyCandidates[k].result].rowIndex = preferredIndex
    THEN fuzzyCandidates[FirstOf({ k \in DOMAIN fuzzyCandidates :
             rs[fuzzyCandidates[k].result].rowIndex = preferredIndex })].result
    ELSE fuzzyCandidates[1].result

FindNormalized(normalizedTargetName, rs, preferredIndex, similarityThreshold) ==
    IF ExactResults(normalizedTargetName, rs) # {}
    THEN PickExact(ExactResults(normalizedTargetName, rs), rs, preferredIndex)
    ELSE PickFuzzy(FuzzyCandidates(normalizedTargetName, rs, similarityThreshold),
                   rs, preferredIndex)

findResultByName(payeeName, rs, preferredIndex, similarityThreshold) ==
    FindNormalized(normalizePayeeName(payeeName), rs, preferredIndex,
                   similarityThreshold)

-----------------------------------------------------------------------------
(* Inputs of the engine *)

\* longest batch
MaxNames == 3

AcmeLLC     == <<"A","c","m","e"," ","L","L","C">>
Acme        == <<"A","c","m","e">>
AcmeSystems == <<"A","c","m","e"," ","S","y","s","t","e","m","s">>
AcmeSystem  == <<"A","c","m","e"," ","S","y","s","t","e","m">>
Acne        == <<"A","c","n","e">>
Blank       == <<" ">>

NamePool == {AcmeLLC, Acme, AcmeSystems, AcmeSystem, Acne, Blank}

RECURSIVE Batches(_)
Batches(n) ==
    IF n = 0 THEN { <<>> }
    ELSE LET shorter == Batches(n - 1)
         IN shorter \cup { Append(b, x) : b \in shorter, x \in NamePool }

\* contents of dedupe_links left by earlier runs
StorePool ==
    { {},
      { Link(normalizePayeeName(AcmeSystems), normalizePayeeName(AcmeSystem)) },
      { Link(normalizePayeeName(Acne), normalizePayeeName(Acme)),
        Link(normalizePayeeName(AcmeSystems), normalizePayeeName(AcmeSystem)) } }

DefaultSimilarityThreshold == 90

NoOpts == [strategy |-> "none", useFuzzyMatching |-> FALSE,
           thresholdIsNumber |-> FALSE, similarityThreshold |-> 0]

\* option sets the batch processor is called with
EpbOptions ==
    { [strategy |-> "v3", useFuzzyMatching |-> TRUE,
       thresholdIsNumber |-> TRUE, similarityThreshold |-> DefaultSimilarityThreshold],
      [strategy |-> "basic", useFuzzyMatching |-> TRUE,
       thresholdIsNumber |-> TRUE, similarityThreshold |-> DefaultSimilarityThreshold],
      [strategy |-> "v3", useFuzzyMatching |-> FALSE,
       thresholdIsNumber |-> TRUE, similarityThreshold |-> DefaultSimilarityThreshold],
      [strategy |-> "v3", useFuzzyMatching |-> TRUE,
       thresholdIsNumber |-> FALSE, similarityThreshold |-> 0] }

PpdOptions ==
    { [strategy |-> "none", useFuzzyMatching |-> f,
       thresholdIsNumber |-> TRUE, similarityThreshold |-> DefaultSimilarityThreshold]
        : f \in BOOLEAN }

-----------------------------------------------------------------------------
(* Calls with untyped arguments: TypeScript types are erased at run time,  *)
(* so a name read from a spreadsheet row may be any JavaScript value.      *)

JsNull == [type |-> "null"]
JsUndefined == [type |-> "undefined"]
JsObject == [type |-> "object"]
JsNumber(n) == [type |-> "number", num |-> n]
JsString(s) == [type |-> "string", str |-> s]

\* !v
JsFalsy(v) ==
    \/ v.type \in {"null", "undefined"}
    \/ v.type = "number" /\ v.num = 0
    \/ v.type = "string" /\ v.str = <<>>

\* v has the String.prototype methods (toUpperCase, trim)
HasStringMethods(v) == v.type = "string"

\* the string a falsy or string value stands for where only !v and the
\* string methods are applied to it
AsString(v) == IF v.type = "string" THEN v.str ELSE <<>>

NoCall == [done |-> FALSE, threw |-> FALSE, value |-> <<>>]
Returned(x) == [done |-> TRUE, threw |-> FALSE, value |-> x]
Thrown == [done |-> TRUE, threw |-> TRUE, value |-> "TypeError"]

\* normalizePayeeName(v): the guard !name, then name.toUpperCase()
normalizePayeeNameCall(v) ==
    IF JsFalsy(v) THEN Returned(<<>>)
    ELSE IF HasStringMethods(v) THEN Returned(normalizePayeeName(v.str))
    ELSE Thrown

normalizeNameCall(v) ==
    IF normalizePayeeNameCall(v).threw THEN Thrown ELSE Returned(normalizeName(AsString(v)))

\* processPayeeDeduplication(vs): payeeNames[i].trim() on every row
processPayeeDeduplicationCall(vs) ==
    IF \E i \in DOMAIN vs : ~HasStringMethods(vs[i]) THEN Thrown
    ELSE Returned(processPayeeDeduplication([i \in DOMAIN vs |-> vs[i].str],
                                            TRUE, DefaultSimilarityThreshold))

\* deduplicateNames(vs) up to its first await: names.map(normalizePayeeName)
deduplicateNamesCall(vs) ==
    IF \E i \in DOMAIN vs : normalizePayeeNameCall(vs[i]).threw THEN Thrown
    ELSE Returned([i \in DOMAIN vs |-> normalizePayeeNameCall(vs[i]).value])

\* findResultByName(v, rs): normalizePayeeName of the target, then of every
\* result whose payeeName is truthy
findResultByNameCall(v, rs) ==
    IF \/ normalizePayeeNameCall(v).threw
       \/ \E p \in DOMAIN rs : normalizePayeeNameCall(rs[p].payeeName).threw
    THEN Thrown
    ELSE Returned(findResultByName(
             AsString(v),
             [p \in DOMAIN rs |-> [payeeName |-> AsString(rs[p].payeeName),
                                   rowIndex |-> rs[p].rowIndex]],
             NoPreferredIndex, DefaultFindThreshold))

\* longest list of untyped names
MaxJsNames == 2

\* the values a spreadsheet cell can hold
JsPool == { JsNull, JsUndefined, JsObject, JsNumber(0), JsNumber(42),
            JsString(<<>>), JsString(Acme), JsString(AcmeLLC) }

RECURSIVE JsBatches(_)
JsBatches(n) ==
    IF n = 0 THEN { <<>> }
    ELSE LET shorter == JsBatches(n - 1)
         IN shorter \cup { Append(b, x) : b \in shorter, x \in JsPool }

\* results carrying the given names, one per row
JsResults(vs) == [p \in DOMAIN vs |-> [payeeName |-> vs[p], rowIndex |-> p - 1]]

JsIdle ==
    /\ jsOp = "none"
    /\ jsArgs = <<>>
    /\ jsOut = NoCall

JsInit ==
    /\ jsOp = "none"
    /\ jsArgs \in JsBatches(MaxJsNames) \ { <<>> }
    /\ jsOut = NoCall

\* normalizeName(jsArgs[1])
CallNormalizeName ==
    /\ jsOp = "none"
    /\ jsOp' = "normalizeName"
    /\ jsOut' = normalizeNameCall(jsArgs[1])
    /\ UNCHANGED jsArgs
    /\ UNCHANGED outsideJs

\* processPayeeDeduplication(jsArgs)
CallProcessPayeeDeduplication ==
    /\ jsOp = "none"
    /\ jsOp' = "processPayeeDeduplication"
    /\ jsOut' = processPayeeDeduplicationCall(jsArgs)
    /\ UNCHANGED jsArgs
    /\ UNCHANGED outsideJs

\* deduplicateNames(jsArgs)
CallDeduplicateNames ==
    /\ jsOp = "none"
    /\ jsOp' = "deduplicateNames"
    /\ jsOut' = deduplicateNamesCall(jsArgs)
    /\ UNCHANGED jsArgs
    /\ UNCHANGED outsideJs

\* findResultByName(jsArgs[1], results named by the rest of jsArgs)
CallFindResultByName ==
    /\ jsOp = "none"
    /\ jsOp' = "findResultByName"
    /\ jsOut' = findResultByNameCall(jsArgs[1], JsResults(Tail(jsArgs)))
    /\ UNCHANGED jsArgs
    /\ UNCHANGED outsideJs

-----------------------------------------------------------------------------
(* Inputs and harness of the result lookup *)

\* longest list of results
MaxResults == 3

Acmes == <<"A","c","m","e","s">>
Acm   == <<"A","c","m">>

\* payee names of the results: two that normalize alike, near misses of
\* different closeness, a distant one and a missing one
ResultNames == { Acme, AcmeLLC, Acmes, Acm, Acne, <<>> }

FindTargets == { Acme, Acm, <<>> }

RECURSIVE ResultLists(_)
ResultLists(n) ==
    IF n = 0 THEN { <<>> }
    ELSE LET shorter == ResultLists(n - 1)
         IN shorter \cup { Append(rs, [payeeName |-> x, rowIndex |-> Len(rs)]) :
                             rs \in shorter, x \in ResultNames }

\* preferredIndex: absent, a row of the list, a row beyond it
PreferredIndexes == { NoPreferredIndex } \cup (0..MaxResults)

\* the default and the strict threshold of the tests
FindThresholds == { DefaultFindThreshold, 99 }

FindIdle ==
    /\ fTarget = <<>>
    /\ fResults = <<>>
    /\ fPreferred = NoPreferredIndex
    /\ fThreshold = DefaultFindThreshold
    /\ fReturn = 0
    /\ fPc = "off"

FindInit ==
    /\ fTarget \in FindTargets
    /\ fResults \in ResultLists(MaxResults)
    /\ fPreferred \in PreferredIndexes
    /\ fThreshold \in FindThresholds
    /\ fReturn = 0
    /\ fPc = "input"

\* findResultByName(fTarget, fResults, fPreferred, fThreshold)
FindCall ==
    /\ fPc = "input"
    /\ fReturn' = findResultByName(fTarget, fResults, fPreferred, fThreshold)
    /\ fResults' = fResults
    /\ fPc' = "returned"
    /\ UNCHANGED <<fTarget, fPreferred, fThreshold>>
    /\ UNCHANGED outsideFind

-----------------------------------------------------------------------------
(* Inputs and harness of the similarity metrics *)

\* longest string compared
MaxSimLen == 2

SimAlphabet == { "A", "B", " " }

RECURSIVE SimStrings(_)
SimStrings(n) ==
    IF n = 0 THEN { <<>> }
    ELSE LET shorter == SimStrings(n - 1)
         IN shorter \cup { Append(x, c) : x \in shorter, c \in SimAlphabet }

\* weights, in hundredths: the default, all on one metric, and sets that do
\* not sum to 1
WeightPool ==
    { DefaultWeights,
      [levenshtein |-> 100, jaroWinkler |-> 0, dice |-> 0, tokenSort |-> 0],
      [levenshtein |-> 0, jaroWinkler |-> 100, dice |-> 0, tokenSort |-> 0],
      [levenshtein |-> 0, jaroWinkler |-> 0, dice |-> 100, tokenSort |-> 0],
      [levenshtein |-> 0, jaroWinkler |-> 0, dice |-> 0, tokenSort |-> 100],
      [levenshtein |-> 50, jaroWinkler |-> 50, dice |-> 50, tokenSort |-> 0],
      [levenshtein |-> 25, jaroWinkler |-> 25, dice |-> 25, tokenSort |-> 15],
      [levenshtein |-> 0, jaroWinkler |-> 0, dice |-> 0, tokenSort |-> 0] }

NoScores == [threw |-> FALSE, scores |-> <<>>]

SimIdle ==
    /\ sA = <<>>
    /\ sB = <<>>
    /\ sWeights = DefaultWeights
    /\ sOut = NoScores
    /\ sPc = "off"

SimInit ==
    /\ sA \in SimStrings(MaxSimLen)
    /\ sB \in SimStrings(MaxSimLen)
    /\ sWeights = DefaultWeights
    /\ sOut = NoScores
    /\ sPc = "input"

\* calculateCombinedSimilarity(sA, sB): the four metrics and their default
\* combination
SimCall ==
    /\ sPc = "input"
    /\ sOut' = [threw |-> FALSE, scores |-> calculateCombinedSimilarity(sA, sB)]
    /\ sPc' = "scored"
    /\ UNCHANGED <<sA, sB, sWeights>>
    /\ UNCHANGED outsideSim

\* calculateCombinedSimilarity(sA, sB, weights)
SimCallWeighted ==
    /\ sPc = "input"
    /\ \E w \in WeightPool :
         /\ sWeights' = w
         /\ sOut' = calculateCombinedSimilarityWith(sA, sB, w)
    /\ sPc' = "weighted"
    /\ UNCHANGED <<sA, sB>>
    /\ UNCHANGED outsideSim

-----------------------------------------------------------------------------
(* BatchJobService (services/batchJobService.ts): jobs kept in a map in    *)
(* memory and mirrored, when a browser storage is available, in one item   *)
(* of that storage.  A stored job is [id, status, created_at].             *)

\* created_at of the BatchJob objects handed to the service
BatchCreatedAt == 0

\* latest value of Date.now()
MaxClock == 3

JobIds == { "batch_1", "batch_2", "bad id" }

\* isValidBatchJobId: which identifiers are well formed
isValidBatchJobId(id) == id \in { "batch_1", "batch_2" }

BatchJob(id, status) == [id |-> id, status |-> status, created_at |-> BatchCreatedAt]

\* position of the entry of id in the map, 0 when there is none
JobPosition(map, id) == FirstOf({ k \in DOMAIN map : map[k].id = id })

\* Map.prototype.set: a new key goes last, a known key keeps its place
JobsSet(map, job) ==
    IF JobPosition(map, job.id) = 0 THEN Append(map, job)
    ELSE [map EXCEPT ![JobPosition(map, job.id)] = job]

\* Map.prototype.delete
JobsDelete(map, id) == SelectSeq(map, LAMBDA j : j.id # id)

\* jobs.forEach(job => this.jobs.set(job.id, job)) on the cleared map
RECURSIVE JobsSetAll(_, _)
JobsSetAll(map, list) ==
    IF list = <<>> THEN map ELSE JobsSetAll(JobsSet(map, Head(list)), Tail(list))

\* .sort((a, b) => b.created_at - a.created_at): stable, newest first
RECURSIVE InsertNewestFirst(_, _)
InsertNewestFirst(job, sorted) ==
    IF sorted = <<>> THEN <<job>>
    ELSE IF job.created_at >= Head(sorted).created_at THEN <<job>> \o sorted
    ELSE <<Head(sorted)>> \o InsertNewestFirst(job, Tail(sorted))

RECURSIVE SortNewestFirst(_)
SortNewestFirst(list) ==
    IF list = <<>> THEN <<>>
    ELSE InsertNewestFirst(Head(list), SortNewestFirst(Tail(list)))

NothingStored == [present |-> FALSE, jobs |-> <<>>]

\* saveToStorage(list): the new content of the storage item
saveToStorage(list) ==
    IF ~storageAvailable \/ writesFail THEN stored
    ELSE [present |-> TRUE, jobs |-> list]

\* loadFromStorage()
loadFromStorage ==
    IF ~storageAvailable THEN jobs
    ELSE IF stored.present THEN SelectSeq(stored.jobs, LAMBDA j : isValidBatchJobId(j.id))
    ELSE jobs

\* { ...existingJob, ...updatedJob }: every field of the BatchJob wins
Merged(existingJob, updatedJob) ==
    [id |-> updatedJob.id, status |-> updatedJob.status,
     created_at |-> updatedJob.created_at]

JobsIdle ==
    /\ storageType = "memory"
    /\ storageAvailable = FALSE
    /\ stored = NothingStored
    /\ writesFail = FALSE
    /\ jobs = <<>>
    /\ now = 0
    /\ loaded = <<>>
    /\ live = {}
    /\ jPc = "off"

\* after construction: initializeStorage has probed the two storages
JobsInit ==
    /\ storageType \in { "localStorage", "sessionStorage", "memory" }
    /\ storageAvailable = (storageType # "memory")
    /\ stored = NothingStored
    /\ writesFail = FALSE
    /\ jobs = <<>>
    /\ now = 1
    /\ loaded = <<>>
    /\ live = {}
    /\ jPc = "idle"

\* what an earlier instance of the service left under STORAGE_KEY
PersistedPool ==
    { NothingStored,
      [present |-> TRUE, jobs |-> <<>>],
      [present |-> TRUE,
       jobs |-> <<[id |-> "batch_1", status |-> "in_progress", created_at |-> 1]>>],
      [present |-> TRUE,
       jobs |-> <<[id |-> "batch_2", status |-> "in_progress", created_at |-> 1],
                  [id |-> "batch_1", status |-> "completed", created_at |-> BatchCreatedAt]>>] }

\* a new instance constructed over the storage an earlier one wrote: the
\* constructor probes the storages and reads nothing
JobsInitOverStorage ==
    /\ storageType \in { "localStorage", "sessionStorage", "memory" }
    /\ storageAvailable = (storageType # "memory")
    /\ stored \in (IF storageAvailable THEN PersistedPool ELSE { NothingStored })
    /\ writesFail = FALSE
    /\ jobs = <<>>
    /\ now = 1
    /\ loaded = <<>>
    /\ live = { [id |-> stored.jobs[k].id, status |-> stored.jobs[k].status] :
                  k \in DOMAIN stored.jobs }
    /\ jPc = "idle"

Alive(id) == { j \in live : j.id # id }

\* addJob(batchJob, payeeNames, originalFileData) at time t
AddJobAt(id, t) ==
    /\ now' = t
    /\ IF ~isValidBatchJobId(id)
       THEN UNCHANGED <<jobs, stored, live>>
       ELSE /\ jobs' = JobsSet(jobs, [id |-> id, status |-> "in_progress", created_at |-> t])
            /\ stored' = saveToStorage(SortNewestFirst(
                             JobsSet(jobs, [id |-> id, status |-> "in_progress",
                                            created_at |-> t])))
            /\ live' = Alive(id) \cup { [id |-> id, status |-> "in_progress"] }

addJob ==
    /\ jPc # "off"
    /\ \E id \in JobIds, t \in now..Min(now + 1, MaxClock) : AddJobAt(id, t)
    /\ jPc' = "added"
    /\ UNCHANGED <<storageType, storageAvailable, writesFail, loaded>>
    /\ UNCHANGED outsideJobs

\* updateJob(updatedJob)
UpdateJobTo(updatedJob) ==
    /\ live' = IF \E j \in live : j.id = updatedJob.id
               THEN Alive(updatedJob.id)
                      \cup { [id |-> updatedJob.id, status |-> updatedJob.status] }
               ELSE live
    /\ IF ~isValidBatchJobId(updatedJob.id) \/ JobPosition(jobs, updatedJob.id) = 0
       THEN UNCHANGED <<jobs, stored>>
       ELSE /\ jobs' = JobsSet(jobs, Merged(jobs[JobPosition(jobs, updatedJob.id)],
                                            updatedJob))
            /\ stored' = saveToStorage(SortNewestFirst(
                             JobsSet(jobs, Merged(jobs[JobPosition(jobs, updatedJob.id)],
                                                  updatedJob))))

updateJob ==
    /\ jPc # "off"
    /\ \E id \in JobIds : UpdateJobTo(BatchJob(id, "completed"))
    /\ jPc' = "idle"
    /\ UNCHANGED <<storageType, storageAvailable, writesFail, now, loaded>>
    /\ UNCHANGED outsideJobs

\* deleteJob(jobId)
deleteJob ==
    /\ jPc # "off"
    /\ \E id \in JobIds :
         /\ jobs' = JobsDelete(jobs, id)
         /\ stored' = saveToStorage(SortNewestFirst(JobsDelete(jobs, id)))
         /\ live' = Alive(id)
    /\ jPc' = "idle"
    /\ UNCHANGED <<storageType, storageAvailable, writesFail, now, loaded>>
    /\ UNCHANGED outsideJobs

\* loadJobs()
loadJobs ==
    /\ jPc # "off"
    /\ loaded' = loadFromStorage
    /\ jobs' = JobsSetAll(<<>>, loadFromStorage)
    /\ jPc' = "loaded"
    /\ UNCHANGED <<storageType, storageAvailable, stored, writesFail, now, live>>
    /\ UNCHANGED outsideJobs

\* the environment: from now on setItem throws (quota exceeded, storage
\* disabled)
WritesStartFailing ==
    /\ jPc # "off"
    /\ storageAvailable
    /\ ~writesFail
    /\ writesFail' = TRUE
    /\ jPc' = "idle"
    /\ UNCHANGED <<storageType, storageAvailable, stored, jobs, now, loaded, live>>
    /\ UNCHANGED outsideJobs

-----------------------------------------------------------------------------
(* deduplicateNames run after run against one dedupe_links table           *)

\* longest batch of a run
MaxRunNames == 2

\* runs made against the table
MaxRuns == 3

LlcLlc == <<"L","L","C"," ","L","L","C">>

RunPool == {Acme, Acne, Acmes, Blank, LlcLlc}

RECURSIVE RunBatches(_)
RunBatches(n) ==
    IF n = 0 THEN { <<>> }
    ELSE LET shorter == RunBatches(n - 1)
         IN shorter \cup { Append(b, x) : b \in shorter, x \in RunPool }

NoRun == [names |-> <<>>, groups |-> <<>>, links |-> <<>>, storeBefore |-> {},
          outcome |-> "none"]

RunsIdle ==
    /\ rConfigured = FALSE
    /\ rStore = {}
    /\ rCount = 0
    /\ rPrev = NoRun
    /\ rLast = NoRun

\* a fresh table, no run made yet
RunsInit ==
    /\ rConfigured \in BOOLEAN
    /\ rStore = {}
    /\ rCount = 0
    /\ rPrev = NoRun
    /\ rLast = NoRun

\* the run before is kept when it was given the same batch
RunRecorded(ns, run) ==
    /\ rCount < MaxRuns
    /\ rCount' = rCount + 1
    /\ rPrev' = IF rCount > 0 /\ rLast.names = ns THEN rLast ELSE NoRun
    /\ rLast' = run
    /\ UNCHANGED rConfigured
    /\ UNCHANGED outsideRuns

\* one call of deduplicateNames(ns) that resolves: c is what it computed
\* from the fetched map, its links are upserted before it returns
RunResolves(ns, c) ==
    /\ rStore' = IF UpsertContacts(rConfigured, c.links)
                 THEN UpsertRows(rStore, c.links) ELSE rStore
    /\ RunRecorded(ns, [names |-> ns, groups |-> c.result, links |-> c.links,
                        storeBefore |-> rStore, outcome |-> "value"])

\* the call rejects at await upsertDedupeLinks: nothing is written
RunUpsertRejects(ns, c) ==
    /\ UpsertContacts(rConfigured, c.links)
    /\ UNCHANGED rStore
    /\ RunRecorded(ns, [names |-> ns, groups |-> <<>>, links |-> c.links,
                        storeBefore |-> rStore, outcome |-> "error"])

\* what deduplicateNames(ns) computes from the table as it stands
RunCompute(ns) ==
    DedupeCompute(ns, fetchDedupeMap(rConfigured, rStore, MapSeq(normalizePayeeName, ns)))

deduplicateNames ==
    \E ns \in RunBatches(MaxRunNames) : RunResolves(ns, RunCompute(ns))

deduplicateNamesUpsertFails ==
    \E ns \in RunBatches(MaxRunNames) : RunUpsertRejects(ns, RunCompute(ns))

\* the call rejects at await fetchDedupeMap
deduplicateNamesFetchFails ==
    \E ns \in RunBatches(MaxRunNames) :
        /\ FetchContacts(rConfigured, MapSeq(normalizePayeeName, ns))
        /\ UNCHANGED rStore
        /\ RunRecorded(ns, [names |-> ns, groups |-> <<>>, links |-> <<>>,
                            storeBefore |-> rStore, outcome |-> "error"])

-----------------------------------------------------------------------------
(* UnifiedStorageService: services/storageService.ts                       *)

StorageKeys == { "batchJobs", "classification_1", "userPreferences" }

\* "[]" parses as a JSON array, "a" does not parse
StorageValues == { "a", "[]" }

\* localStorage.getItem(key) === null, memoryStorage[key] === undefined
NoItem == "<absent>"

NothingKept == [k \in StorageKeys |-> NoItem]

\* key.startsWith('processing_result_') || key.startsWith('batch_result_')
\*   || key.startsWith('classification_')
IsResultKey(key) == key \in { "classification_1" }

JsonParses(value) == value = "[]"

\* the try block around the batch jobs: parse, trim to five lightweight
\* jobs, write back; any throw inside removes the item
CleanBatchJobs(ls, writeBackThrows) ==
    IF ls["batchJobs"] = NoItem THEN ls
    ELSE IF JsonParses(ls["batchJobs"]) /\ ~writeBackThrows THEN ls
    ELSE [ls EXCEPT !["batchJobs"] = NoItem]

\* emergencyCleanup(): localStorage afterwards (it returns true)
emergencyCleanup(ls, writeBackThrows) ==
    CleanBatchJobs([k \in StorageKeys |-> IF IsResultKey(k) THEN NoItem ELSE ls[k]],
                   writeBackThrows)

\* regularCleanup(): removes a third of the processing_result_ and
\* batch_result_ items, oldest first
regularCleanup(ls) == ls

\* safeSetItem(key, value): firstThrows and retryThrows say whether the two
\* localStorage.setItem calls throw
safeSetItem(ls, key, value, firstThrows, writeBackThrows, retryThrows) ==
    IF ~firstThrows THEN [success |-> TRUE, ls |-> [ls EXCEPT ![key] = value]]
    ELSE IF ~retryThrows
    THEN [success |-> TRUE,
          ls |-> [emergencyCleanup(ls, writeBackThrows) EXCEPT ![key] = value]]
    ELSE [success |-> FALSE, ls |-> emergencyCleanup(ls, writeBackThrows)]

\* setItem(key, value), r being what safeSetItem did; it returns true
SetItemAfter(key, value, r) ==
    /\ lsItems' = r.ls
    /\ memItems' = IF r.success THEN memItems ELSE [memItems EXCEPT ![key] = value]
    /\ svFallback' = ~r.success
    /\ svStatus' = IF r.success THEN "localStorage" ELSE "memory"

\* this.memoryStorage[key] || null
MemoryOrNull(mem, key) == IF mem[key] = "" THEN NoItem ELSE mem[key]

\* getItem(key)
GetItemValue(ls, mem, key) == IF ls[key] # NoItem THEN ls[key] ELSE MemoryOrNull(mem, key)

\* clear(): localStorage.clear() with userPreferences backed up and written
\* back
ClearedStorage(ls, restoreThrows) ==
    [k \in StorageKeys |->
        IF k = "userPreferences" /\ ls[k] # "" /\ ~restoreThrows THEN ls[k] ELSE NoItem]

NoRead == [key |-> "", value |-> NoItem]

StorageIdle ==
    /\ lsItems = NothingKept
    /\ memItems = NothingKept
    /\ svFallback = FALSE
    /\ svStatus = "localStorage"
    /\ svWritten = NothingKept
    /\ svRead = NoRead
    /\ svPc = "off"

StorageInit ==
    /\ lsItems = NothingKept
    /\ memItems = NothingKept
    /\ svFallback = FALSE
    /\ svStatus = "localStorage"
    /\ svWritten = NothingKept
    /\ svRead = NoRead
    /\ svPc = "idle"

setItem ==
    /\ svPc # "off"
    /\ \E key \in StorageKeys, value \in StorageValues :
         /\ \E firstThrows, writeBackThrows, retryThrows \in BOOLEAN :
              SetItemAfter(key, value,
                           safeSetItem(lsItems, key, value,
                                       firstThrows, writeBackThrows, retryThrows))
         /\ svWritten' = [svWritten EXCEPT ![key] = value]
    /\ svPc' = "idle"
    /\ UNCHANGED svRead
    /\ UNCHANGED outsideStorage

getItem ==
    /\ svPc # "off"
    /\ \E key \in StorageKeys :
         svRead' = [key |-> key, value |-> GetItemValue(lsItems, memItems, key)]
    /\ svPc' = "read"
    /\ UNCHANGED <<lsItems, memItems, svFallback, svStatus, svWritten>>
    /\ UNCHANGED outsideStorage

removeItem ==
    /\ svPc # "off"
    /\ \E key \in StorageKeys :
         /\ lsItems' = [lsItems EXCEPT ![key] = NoItem]
         /\ memItems' = [memItems EXCEPT ![key] = NoItem]
         /\ svWritten' = [svWritten EXCEPT ![key] = NoItem]
    /\ svPc' = "idle"
    /\ UNCHANGED <<svFallback, svStatus, svRead>>
    /\ UNCHANGED outsideStorage

clear ==
    /\ svPc # "off"
    /\ \E restoreThrows \in BOOLEAN : lsItems' = ClearedStorage(lsItems, restoreThrows)
    /\ memItems' = NothingKept
    /\ svWritten' = NothingKept
    /\ svPc' = "idle"
    /\ UNCHANGED <<svFallback, svStatus, svRead>>
    /\ UNCHANGED outsideStorage

\* cleanup(): nothing, regularCleanup or emergencyCleanup, by the size of
\* localStorage
cleanup ==
    /\ svPc # "off"
    /\ \/ lsItems' = lsItems
       \/ lsItems' = regularCleanup(lsItems)
       \/ \E writeBackThrows \in BOOLEAN :
            lsItems' = emergencyCleanup(lsItems, writeBackThrows)
    /\ svPc' = "idle"
    /\ UNCHANGED <<memItems, svFallback, svStatus, svWritten, svRead>>
    /\ UNCHANGED outsideStorage

-----------------------------------------------------------------------------
(* Automatic polling of one batch job: hooks/useBatchJobPolling.tsx and    *)
(* useJobPolling. A polling loop is the closure pollJob made by one call   *)
(* of startPolling; it reads pollingStates as it was in the render that    *)
(* made it, and updates the state through functional setPollingStates.     *)

\* setTimeout calls made in one behaviour
MaxTimers == 5

PollingHooks == { "useBatchJobPolling", "useJobPolling" }

\* the statuses checkBatchJobStatus resolves to
CheckedStatuses == { "in_progress", "completed", "failed" }

\* ['completed', 'failed', 'expired', 'cancelled'].includes(status)
IsFinished(status) == status \in { "completed", "failed", "expired", "cancelled" }

\* ['validating', 'in_progress', 'finalizing'].includes(status)
IsRunning(status) == status \in { "validating", "in_progress", "finalizing" }

\* failures after which polling is to stop
MaxConsecutiveFailures == 3

NoPollingState == [isPolling |-> FALSE, pollCount |-> 0, consecutiveFailures |-> 0]

\* clearInterval(intervalRefs.current[jobId])
ClearTimer(timers, ref) == { t \in timers : t.id # ref }

\* setTimeout(() => pollJob(count), 60000) by a loop whose closure holds
\* the failure count `seen`
NewTimer(id, seen, count) == [id |-> id, seen |-> seen, count |-> count]

PollingIdle ==
    /\ pHook = "none"
    /\ pState = NoPollingState
    /\ pRef = 0
    /\ pTimers = {}
    /\ pChecks = {}
    /\ pRefreshes = {}
    /\ pNextId = 1
    /\ pFailRun = 0
    /\ pStopped = FALSE
    /\ pIssued = FALSE

PollingInit ==
    /\ pHook \in PollingHooks
    /\ pState = NoPollingState
    /\ pRef = 0
    /\ pTimers = {}
    /\ pChecks = {}
    /\ pRefreshes = {}
    /\ pNextId = 1
    /\ pFailRun = 0
    /\ pStopped = FALSE
    /\ pIssued = FALSE

\* startPolling(jobId), called from a closure that saw `seen` consecutive
\* failures in pollingStates
StartPollingSeeing(seen) ==
    /\ pNextId <= MaxTimers
    /\ pState' = [isPolling |-> TRUE, pollCount |-> 0, consecutiveFailures |-> 0]
    /\ pTimers' = (IF pHook = "useJobPolling" THEN ClearTimer(pTimers, pRef) ELSE pTimers)
                     \cup { NewTimer(pNextId, seen, 0) }
    /\ pRef' = pNextId
    /\ pNextId' = pNextId + 1
    /\ pStopped' = FALSE
    /\ pIssued' = FALSE

startPolling ==
    /\ pHook # "none"
    /\ StartPollingSeeing(pState.consecutiveFailures)
    /\ UNCHANGED <<pHook, pChecks, pRefreshes, pFailRun>>
    /\ UNCHANGED outsidePolling

\* a timer fires: pollJob(count) runs to await checkBatchJobStatus(jobId)
TimerFires ==
    /\ \E t \in pTimers :
         /\ pTimers' = pTimers \ {t}
         /\ pChecks' = pChecks \cup {t}
    /\ pIssued' = pStopped
    /\ UNCHANGED <<pHook, pState, pRef, pRefreshes, pNextId, pFailRun, pStopped>>
    /\ UNCHANGED outsidePolling

\* the end of a loop: clear the timer in intervalRefs, isPolling false
LoopStops(state) ==
    /\ pTimers' = ClearTimer(pTimers, pRef)
    /\ pRef' = 0
    /\ pState' = [state EXCEPT !.isPolling = FALSE]
    /\ UNCHANGED pNextId

\* the loop goes on: setTimeout for the next pollJob
LoopContinues(c, state) ==
    /\ pNextId <= MaxTimers
    /\ pTimers' = pTimers \cup { NewTimer(pNextId, c.seen, c.count + 1) }
    /\ pRef' = pNextId
    /\ pNextId' = pNextId + 1
    /\ pState' = state

\* checkBatchJobStatus resolves inside pollJob
CheckResolves ==
    /\ \E c \in pChecks, status \in CheckedStatuses :
         /\ pChecks' = pChecks \ {c}
         /\ IF IsFinished(status)
            THEN LoopStops([pState EXCEPT !.pollCount = c.count + 1,
                                          !.consecutiveFailures = 0])
            ELSE LoopContinues(c, [pState EXCEPT !.pollCount = c.count + 1,
                                                 !.consecutiveFailures = 0])
    /\ pFailRun' = 0
    /\ UNCHANGED <<pHook, pRefreshes, pStopped, pIssued>>
    /\ UNCHANGED outsidePolling

\* the state the catch block sets: only useBatchJobPolling counts the poll
FailedState(c, newConsecutiveFailures) ==
    [pState EXCEPT !.consecutiveFailures = newConsecutiveFailures,
                   !.pollCount = IF pHook = "useBatchJobPolling" THEN c.count + 1 ELSE @]

\* the catch block of pollJob
Caught(c, newConsecutiveFailures) ==
    IF newConsecutiveFailures >= MaxConsecutiveFailures
    THEN LoopStops(FailedState(c, newConsecutiveFailures))
    ELSE LoopContinues(c, FailedState(c, newConsecutiveFailures))

\* checkBatchJobStatus throws inside pollJob
CheckRejects ==
    /\ \E c \in pChecks :
         /\ pChecks' = pChecks \ {c}
         /\ Caught(c, c.seen + 1)
    /\ pFailRun' = Min(pFailRun + 1, MaxConsecutiveFailures)
    /\ UNCHANGED <<pHook, pRefreshes, pStopped, pIssued>>
    /\ UNCHANGED outsidePolling

\* stopPolling(jobId)
stopPolling ==
    /\ pHook # "none"
    /\ pTimers' = ClearTimer(pTimers, pRef)
    /\ pRef' = 0
    /\ pState' = [pState EXCEPT !.isPolling = FALSE]
    /\ pStopped' = TRUE
    /\ pIssued' = FALSE
    /\ UNCHANGED <<pHook, pChecks, pRefreshes, pNextId, pFailRun>>
    /\ UNCHANGED outsidePolling

\* manualRefresh(jobId) up to await checkBatchJobStatus(jobId); its closure
\* holds pollingStates as last rendered
manualRefresh ==
    /\ pHook # "none"
    /\ pRefreshes = {}
    /\ pRefreshes' = { [isPolling |-> pState.isPolling,
                        seen |-> pState.consecutiveFailures] }
    /\ pStopped' = FALSE
    /\ pIssued' = FALSE
    /\ UNCHANGED <<pHook, pState, pRef, pTimers, pChecks, pNextId, pFailRun>>
    /\ UNCHANGED outsidePolling

\* whether manualRefresh goes on to startPolling(jobId)
RefreshStartsPolling(r, status) ==
    IF pHook = "useBatchJobPolling"
    THEN status # "completed" /\ ~r.isPolling /\ IsRunning(status)
    ELSE status # "completed" /\ IsRunning(status)

\* checkBatchJobStatus resolves inside manualRefresh
RefreshResolves ==
    /\ \E r \in pRefreshes, status \in CheckedStatuses :
         /\ pRefreshes' = pRefreshes \ {r}
         /\ IF RefreshStartsPolling(r, status)
            THEN StartPollingSeeing(r.seen)
            ELSE /\ pState' = [pState EXCEPT !.consecutiveFailures = 0]
                 /\ UNCHANGED <<pRef, pTimers, pNextId, pStopped, pIssued>>
    /\ pFailRun' = 0
    /\ UNCHANGED <<pHook, pChecks>>
    /\ UNCHANGED outsidePolling

\* checkBatchJobStatus throws inside manualRefresh: lastError is set
RefreshRejects ==
    /\ \E r \in pRefreshes : pRefreshes' = pRefreshes \ {r}
    /\ UNCHANGED <<pHook, pState, pRef, pTimers, pChecks, pNextId, pFailRun, pStopped,
                   pIssued>>
    /\ UNCHANGED outsidePolling

-----------------------------------------------------------------------------
(* withRetry: retry of an asynchronous operation                           *)

MAX_RETRIES == 2

\* largest maxRetries handed to withRetry
MaxRetriesTried == 3

\* message.includes(needle)
Includes(message, needle) == \E i \in 1..Len(message) : StartsAt(message, i, needle)

Text401 == <<"4","0","1">>
TextAuthentication == <<"a","u","t","h","e","n","t","i","c","a","t","i","o","n">>

\* what an attempt can throw: Error objects with a message, or another value
ThrownValues ==
    { [isError |-> TRUE,  message |-> <<"t","i","m","e","o","u","t">>],
      [isError |-> TRUE,  message |-> <<"4","2","9">>],
      [isError |-> TRUE,  message |-> <<"H","T","T","P"," ">> \o Text401],
      [isError |-> TRUE,  message |-> TextAuthentication \o <<" ","f","a","i","l","e","d">>],
      [isError |-> FALSE, message |-> Text401] }

NoError == [isError |-> FALSE, message |-> <<>>]

\* variant: authentication errors retried like any other
RetriesAuthErrors(error) == FALSE

\* error instanceof Error && (error.message.includes('401')
\*   || error.message.includes('authentication'))
IsAuthError(error) ==
    /\ error.isError
    /\ (Includes(error.message, Text401) \/ Includes(error.message, TextAuthentication))

RetryIdle ==
    /\ wMaxRetries = 0
    /\ wAttempt = 0
    /\ wPc = "off"
    /\ wLastError = NoError
    /\ wOutcomes = <<>>

\* before the call withRetry(operation, maxRetries)
RetryInit ==
    /\ wMaxRetries \in 0..MaxRetriesTried
    /\ wAttempt = 0
    /\ wPc = "idle"
    /\ wLastError = NoError
    /\ wOutcomes = <<>>

\* withRetry up to the first await operation()
withRetry ==
    /\ wPc = "idle"
    /\ wAttempt' = 0
    /\ wPc' = "calling"
    /\ UNCHANGED <<wMaxRetries, wLastError, wOutcomes>>
    /\ UNCHANGED outsideRetry

\* operation() resolves: return await operation()
OperationResolves ==
    /\ wPc = "calling"
    /\ wPc' = "returned"
    /\ wOutcomes' = Append(wOutcomes, [ok |-> TRUE, error |-> NoError])
    /\ UNCHANGED <<wMaxRetries, wAttempt, wLastError>>
    /\ UNCHANGED outsideRetry

\* where the catch block leaves the loop for a thrown value
AfterCatch(error) ==
    IF IsAuthError(error) THEN "thrown"
    ELSE IF wAttempt = wMaxRetries THEN "thrown"
    ELSE "waiting"

\* operation() throws: the catch block
OperationRejects ==
    /\ wPc = "calling"
    /\ \E error \in ThrownValues :
         /\ wLastError' = error
         /\ wOutcomes' = Append(wOutcomes, [ok |-> FALSE, error |-> error])
         /\ wPc' = AfterCatch(error)
    /\ UNCHANGED <<wMaxRetries, wAttempt>>
    /\ UNCHANGED outsideRetry

\* the delay baseDelay * 2^attempt has passed: attempt++, operation() again
DelayElapses ==
    /\ wPc = "waiting"
    /\ wAttempt' = wAttempt + 1
    /\ wPc' = IF wAttempt + 1 <= wMaxRetries THEN "calling" ELSE "thrown"
    /\ UNCHANGED <<wMaxRetries, wLastError, wOutcomes>>
    /\ UNCHANGED outsideRetry

-----------------------------------------------------------------------------
(* The classification cache of the optimized batch classifier             *)

\* the size limit of the cache, scaled down from the source's 1000
MAX_CACHE_SIZE == 2

\* the lifetime of an entry in ticks of the clock, scaled down from 30 minutes
CACHE_TTL == 1

\* the last tick of the clock
MaxNow == 2

PROMPT_VERSION == <<"v","1">>

\* String.prototype.toLowerCase, one code unit at a time
ToLowerChar(c) ==
    IF c \in Range(UpperLetters)
    THEN LowerLetters[CHOOSE i \in DOMAIN UpperLetters : UpperLetters[i] = c]
    ELSE c

LowerCase(s) == MapSeq(ToLowerChar, s)

\* the names looked up and cached: two spellings of one key, an empty name
\* and a name of whitespace among them
CacheNames == { <<"A">>, <<"a"," ">>, <<"B">>, <<>>, <<" "," ">> }

\* '' when the name is empty, else `${normalized}|${PROMPT_VERSION}`
getCacheKey(name) ==
    IF name = <<>> THEN <<>>
    ELSE CollapseWhitespace(LowerCase(Trim(name))) \o <<"|">> \o PROMPT_VERSION

\* the localStorage item: absent, or the entries of the stored object
NoCacheItem == [present |-> FALSE, entries |-> <<>>]

CacheItem(entries) == [present |-> TRUE, entries |-> entries]

CacheKeys(entries) == { entries[i].key : i \in DOMAIN entries }

\* Map.prototype.get: the position of the key's entry, 0 when it has none
CachePosition(entries, key) == FirstOf({ i \in DOMAIN entries : entries[i].key = key })

\* Map.prototype.set: an existing key keeps its place, a new one goes last
CacheSet(entries, entry) ==
    IF CachePosition(entries, entry.key) = 0 THEN Append(entries, entry)
    ELSE [entries EXCEPT ![CachePosition(entries, entry.key)] = entry]

\* Map.prototype.delete
RECURSIVE CacheDelete(_, _)
CacheDelete(entries, key) ==
    IF entries = <<>> THEN <<>>
    ELSE IF Head(entries).key = key THEN CacheDelete(Tail(entries), key)
    ELSE <<Head(entries)>> \o CacheDelete(Tail(entries), key)

\* Date.now() - result.timestamp < CACHE_TTL
isCacheValid(result, t) == t - result.timestamp < CACHE_TTL

\* the entries with now - timestamp < CACHE_TTL, in their order
RECURSIVE Unexpired(_, _)
Unexpired(entries, t) ==
    IF entries = <<>> THEN <<>>
    ELSE IF isCacheValid(Head(entries), t)
         THEN <<Head(entries)>> \o Unexpired(Tail(entries), t)
         ELSE Unexpired(Tail(entries), t)

\* one entry put into a list sorted by timestamp, behind its equals
RECURSIVE InsertByTimestamp(_, _)
InsertByTimestamp(sorted, entry) ==
    IF sorted = <<>> THEN <<entry>>
    ELSE IF Head(sorted).timestamp <= entry.timestamp
         THEN <<Head(sorted)>> \o InsertByTimestamp(Tail(sorted), entry)
         ELSE <<entry>> \o sorted

\* entries.sort((a, b) => a[1].timestamp - b[1].timestamp), a stable sort
RECURSIVE SortByTimestamp(_)
SortByTimestamp(entries) ==
    IF entries = <<>> THEN <<>>
    ELSE InsertByTimestamp(SortByTimestamp(SubSeq(entries, 1, Len(entries) - 1)),
                           entries[Len(entries)])

\* if (entries.length > MAX_CACHE_SIZE) { sort; splice(0, length - MAX_CACHE_SIZE) }
CapEntries(entries) ==
    IF Len(entries) > MAX_CACHE_SIZE
    THEN SubSeq(SortByTimestamp(entries), Len(entries) - MAX_CACHE_SIZE + 1, Len(entries))
    ELSE entries

\* saveCacheToStorage: the item afterwards
saveCacheToStorage(entries, item, persist, t, setItemThrows) ==
    IF ~persist \/ setItemThrows THEN item
    ELSE CacheItem(CapEntries(Unexpired(entries, t)))

\* loadCacheFromStorage into the empty cache of a new module: the cache and
\* the item afterwards
loadCacheFromStorage(item, t, setItemThrows) ==
    IF ~item.present THEN [cache |-> <<>>, item |-> item]
    ELSE [cache |-> Unexpired(item.entries, t),
          item  |-> IF setItemThrows THEN item
                    ELSE CacheItem(CapEntries(Unexpired(item.entries, t)))]

\* variant: the oldest entry deleted only once the cache is over its limit
EvictsWhenOverfull(entries) ==
    IF Len(entries) > MAX_CACHE_SIZE /\ Head(entries).key # <<>>
    THEN Tail(entries)
    ELSE entries

\* if (classificationCache.size >= MAX_CACHE_SIZE) delete the first key of
\* the Map, unless that key is ''
AfterEviction(entries) ==
    IF Len(entries) >= MAX_CACHE_SIZE /\ Head(entries).key # <<>>
    THEN CacheDelete(entries, Head(entries).key)
    ELSE entries

NoCacheCall == [op |-> "none", key |-> <<>>, found |-> FALSE, full |-> FALSE]

CacheIdle ==
    /\ cCache = <<>>
    /\ cStored = NoCacheItem
    /\ cPersist = FALSE
    /\ cNow = 0
    /\ cLast = NoCacheCall

\* the module loaded where nothing was ever stored
CacheInit ==
    /\ cCache = <<>>
    /\ cStored = NoCacheItem
    /\ cPersist = TRUE
    /\ cNow = 0
    /\ cLast = NoCacheCall

\* getCachedResult: what the lookup leaves in the cache
LookedUp(key) ==
    IF key = <<>> \/ CachePosition(cCache, key) = 0 THEN cCache
    ELSE IF isCacheValid(cCache[CachePosition(cCache, key)], cNow) THEN cCache
    ELSE CacheDelete(cCache, key)

\* whether the lookup returns the cached result
Hit(key) ==
    /\ key # <<>>
    /\ CachePosition(cCache, key) # 0
    /\ isCacheValid(cCache[CachePosition(cCache, key)], cNow)

\* getCachedResult(name)
getCachedResult ==
    /\ \E name \in CacheNames :
         /\ cCache' = LookedUp(getCacheKey(name))
         /\ cLast' = [op |-> "get", key |-> <<>>,
                      found |-> Hit(getCacheKey(name)), full |-> FALSE]
    /\ UNCHANGED <<cStored, cPersist, cNow>>
    /\ UNCHANGED outsideCache

\* setCachedResult: the cache after the call
CachedUnder(key) ==
    IF key = <<>> THEN cCache
    ELSE CacheSet(AfterEviction(cCache), [key |-> key, timestamp |-> cNow])

\* setCachedResult(name, result)
setCachedResult ==
    /\ \E name \in CacheNames :
         /\ cCache' = CachedUnder(getCacheKey(name))
         /\ cLast' = [op |-> "set", key |-> getCacheKey(name),
                      found |-> CachePosition(cCache, getCacheKey(name)) # 0,
                      full |-> Len(cCache) >= MAX_CACHE_SIZE]
    /\ UNCHANGED <<cStored, cPersist, cNow>>
    /\ UNCHANGED outsideCache

\* clearClassificationCache()
clearClassificationCache ==
    /\ cCache' = <<>>
    /\ cStored' = IF cPersist THEN NoCacheItem ELSE cStored
    /\ cLast' = [op |-> "clear", key |-> <<>>, found |-> FALSE, full |-> FALSE]
    /\ UNCHANGED <<cPersist, cNow>>
    /\ UNCHANGED outsideCache

\* setCachePersistence(enabled)
setCachePersistence ==
    /\ \E enabled \in BOOLEAN : cPersist' = enabled
    /\ cPersist' # cPersist
    /\ cLast' = [op |-> "persistence", key |-> <<>>, found |-> FALSE, full |-> FALSE]
    /\ UNCHANGED <<cCache, cStored, cNow>>
    /\ UNCHANGED outsideCache

\* the clock advances
TimePasses ==
    /\ cNow < MaxNow
    /\ cNow' = cNow + 1
    /\ UNCHANGED <<cCache, cStored, cPersist, cLast>>
    /\ UNCHANGED outsideCache

\* the module of the page that opens later, once loadCacheFromStorage has run
Reloaded(item, later) ==
    /\ \E loadThrows \in BOOLEAN :
         /\ cCache' = loadCacheFromStorage(item, later, loadThrows).cache
         /\ cStored' = loadCacheFromStorage(item, later, loadThrows).item
    /\ cNow' = later
    /\ cPersist' = TRUE

\* the page unloads, saveCacheToStorage runs on 'beforeunload', and the
\* module is loaded anew at some later time
PageReloads ==
    /\ \E saveThrows \in BOOLEAN, later \in cNow..MaxNow :
         Reloaded(saveCacheToStorage(cCache, cStored, cPersist, cNow, saveThrows), later)
    /\ cLast' = [op |-> "load", key |-> <<>>, found |-> FALSE, full |-> FALSE]
    /\ UNCHANGED outsideCache

(* The engine as a state machine: one operation per behaviour, split at    *)
(* its awaits                                                              *)

EngineIdle ==
    /\ op = "none"
    /\ pc = "idle"
    /\ existingMap = {}
    /\ remaining = <<>>
    /\ groups = <<>>
    /\ newGroups = <<>>
    /\ links = <<>>
    /\ queue = <<>>
    /\ results = <<>>
    /\ opts = NoOpts
    /\ fetchCalls = 0
    /\ upsertCalls = 0
    /\ storeReads = 0
    /\ storeWrites = 0
    /\ outcome = "none"

EngineInit ==
    /\ configured \in BOOLEAN
    /\ store \in StorePool
    /\ names \in Batches(MaxNames)
    /\ EngineIdle

EngineOff ==
    /\ configured = FALSE
    /\ store = {}
    /\ names = <<>>
    /\ EngineIdle

\* deduplicateNames up to its first await: fetchDedupeMap(normalized)
DedupeCall ==
    /\ op = "none"
    /\ op' = "deduplicateNames"
    /\ pc' = "fetching"
    /\ fetchCalls' = fetchCalls + 1
    /\ storeReads' = storeReads
         + (IF FetchContacts(configured, MapSeq(normalizePayeeName, names)) THEN 1 ELSE 0)
    /\ UNCHANGED <<configured, store, names, existingMap, remaining, groups, newGroups,
                   links, queue, results, opts, upsertCalls, storeWrites, outcome>>
    /\ UNCHANGED outsideEngine

\* fetchDedupeMap throws the store's error: deduplicateNames rejects
FetchReject ==
    /\ pc = "fetching"
    /\ storeReads > 0
    /\ pc' = "rejected"
    /\ outcome' = "error"
    /\ UNCHANGED <<configured, store, names, op, existingMap, remaining, groups, newGroups,
                   links, queue, results, opts, fetchCalls, upsertCalls, storeReads,
                   storeWrites>>
    /\ UNCHANGED outsideEngine

\* variant: upsertDedupeLinks awaited inside the loop, once per link
DedupeResumePerLink(c) ==
    /\ existingMap' = c.existingMap
    /\ remaining' = c.remaining
    /\ groups' = c.result
    /\ newGroups' = c.newGroups
    /\ links' = c.links
    /\ storeWrites' = storeWrites + (IF configured THEN Len(c.links) ELSE 0)

\* deduplicateNames from the fetched map to its second await
DedupeResume(c) ==
    /\ existingMap' = c.existingMap
    /\ remaining' = c.remaining
    /\ groups' = c.result
    /\ newGroups' = c.newGroups
    /\ links' = c.links
    /\ storeWrites' = storeWrites + (IF UpsertContacts(configured, c.links) THEN 1 ELSE 0)

\* fetchDedupeMap resolves: deduplicateNames runs to its second await,
\* upsertDedupeLinks(links)
FetchResolve ==
    /\ pc = "fetching"
    /\ DedupeResume(DedupeCompute(names,
           fetchDedupeMap(configured, store, MapSeq(normalizePayeeName, names))))
    /\ upsertCalls' = upsertCalls + 1
    /\ pc' = "upserting"
    /\ UNCHANGED <<configured, store, names, op, queue, results, opts, fetchCalls,
                   storeReads, outcome>>
    /\ UNCHANGED outsideEngine

\* upsertDedupeLinks resolves: the operation returns its value
UpsertResolve ==
    /\ pc = "upserting"
    /\ store' = IF storeWrites > 0 THEN UpsertRows(store, links) ELSE store
    /\ pc' = "returned"
    /\ outcome' = "value"
    /\ UNCHANGED <<configured, names, op, existingMap, remaining, groups, newGroups, links,
                   queue, results, opts, fetchCalls, upsertCalls, storeReads, storeWrites>>
    /\ UNCHANGED outsideEngine

\* upsertDedupeLinks throws the store's error: the operation rejects
UpsertReject ==
    /\ pc = "upserting"
    /\ storeWrites > 0
    /\ pc' = "rejected"
    /\ outcome' = "error"
    /\ UNCHANGED <<configured, store, names, op, existingMap, remaining, groups, newGroups,
                   links, queue, results, opts, fetchCalls, upsertCalls, storeReads,
                   storeWrites>>
    /\ UNCHANGED outsideEngine

\* processPayeeDeduplication from the end of its loop to its await
PpdAwait(st) ==
    /\ queue' = st.processQueue
    /\ results' = st.results
    /\ links' = st.dedupeLinks
    /\ storeWrites' = storeWrites
         + (IF UpsertContacts(configured, st.dedupeLinks) THEN 1 ELSE 0)

\* processPayeeDeduplication (batchDeduplication.ts) up to its await
PpdCall ==
    /\ op = "none"
    /\ \E o \in PpdOptions :
         /\ opts' = o
         /\ PpdAwait(processPayeeDeduplication(names, o.useFuzzyMatching,
                                               o.similarityThreshold))
    /\ op' = "processPayeeDeduplication"
    /\ upsertCalls' = upsertCalls + 1
    /\ pc' = "upserting"
    /\ UNCHANGED <<configured, store, names, existingMap, remaining, groups, newGroups,
                   fetchCalls, storeReads, outcome>>
    /\ UNCHANGED outsideEngine

PpdReturn(st) ==
    /\ queue' = st.processQueue
    /\ results' = st.results

\* the synchronous processPayeeDeduplication, which persists nothing
PpdSyncCall ==
    /\ op = "none"
    /\ \E o \in PpdOptions :
         /\ opts' = o
         /\ PpdReturn(processPayeeDeduplication(names, o.useFuzzyMatching,
                                                o.similarityThreshold))
    /\ op' = "processPayeeDeduplicationSync"
    /\ pc' = "returned"
    /\ outcome' = "value"
    /\ UNCHANGED <<configured, store, names, existingMap, remaining, groups, newGroups,
                   links, fetchCalls, upsertCalls, storeReads, storeWrites>>
    /\ UNCHANGED outsideEngine

\* enhancedProcessBatch once its dedupeLinks are built: the await, or the return
EpbAwait(ls) ==
    /\ links' = ls
    /\ upsertCalls' = upsertCalls + (IF ls # <<>> THEN 1 ELSE 0)
    /\ storeWrites' = storeWrites + (IF UpsertContacts(configured, ls) THEN 1 ELSE 0)
    /\ pc' = IF ls # <<>> THEN "upserting" ELSE "returned"
    /\ outcome' = IF ls # <<>> THEN "none" ELSE "value"

\* enhancedProcessBatch: to its await when it has links, to its return otherwise
EpbCall ==
    /\ op = "none"
    /\ \E o \in EpbOptions :
         /\ opts' = o
         /\ EpbAwait(EpbLinks(names, o))
    /\ results' = EpbResults(names)
    /\ op' = "enhancedProcessBatch"
    /\ UNCHANGED <<configured, store, names, existingMap, remaining, groups, newGroups,
                   queue, fetchCalls, storeReads>>
    /\ UNCHANGED outsideEngine

\* the components no operation of which has been called
EarlyIdle == NormIdle /\ EngineOff /\ JsIdle /\ FindIdle /\ SimIdle /\ JobsIdle

LateIdle == RunsIdle /\ StorageIdle /\ PollingIdle /\ RetryIdle /\ CacheIdle

Init == NormIdle /\ EngineInit /\ JsIdle /\ FindIdle /\ SimIdle /\ JobsIdle /\ LateIdle

Next ==
    \/ DedupeCall
    \/ FetchReject
    \/ FetchResolve
    \/ UpsertResolve
    \/ UpsertReject
    \/ PpdCall
    \/ PpdSyncCall
    \/ EpbCall

Spec == Init /\ [][Next]_vars

NormNext ==
    \/ NormalizeOnce
    \/ NormalizeAgain
    \/ NormalizeVariant

NormStart == NormInit /\ EngineOff /\ JsIdle /\ FindIdle /\ SimIdle /\ JobsIdle /\ LateIdle

SpecNorm == NormStart /\ [][NormNext]_vars

MalformedNext ==
    \/ CallNormalizeName
    \/ CallProcessPayeeDeduplication
    \/ CallDeduplicateNames
    \/ CallFindResultByName

MalformedStart == NormIdle /\ EngineOff /\ JsInit /\ FindIdle /\ SimIdle /\ JobsIdle /\ LateIdle

SpecMalformed == MalformedStart /\ [][MalformedNext]_vars

FindNext == FindCall

FindStart == NormIdle /\ EngineOff /\ JsIdle /\ FindInit /\ SimIdle /\ JobsIdle /\ LateIdle

SpecFind == FindStart /\ [][FindNext]_vars

SimNext ==
    \/ SimCall
    \/ SimCallWeighted

SimStart == NormIdle /\ EngineOff /\ JsIdle /\ FindIdle /\ SimInit /\ JobsIdle /\ LateIdle

SpecSim == SimStart /\ [][SimNext]_vars

JobsNext ==
    \/ addJob
    \/ updateJob
    \/ deleteJob
    \/ loadJobs
    \/ WritesStartFailing

JobsStart == NormIdle /\ EngineOff /\ JsIdle /\ FindIdle /\ SimIdle /\ JobsInit /\ LateIdle

SpecJobs == JobsStart /\ [][JobsNext]_vars

RestartStart == NormIdle /\ EngineOff /\ JsIdle /\ FindIdle /\ SimIdle /\ JobsInitOverStorage
                  /\ LateIdle

SpecRestart == RestartStart /\ [][JobsNext]_vars

RunsNext ==
    \/ deduplicateNames
    \/ deduplicateNamesUpsertFails
    \/ deduplicateNamesFetchFails

RunsStart == EarlyIdle /\ RunsInit /\ StorageIdle /\ PollingIdle /\ RetryIdle /\ CacheIdle

SpecRuns == RunsStart /\ [][RunsNext]_vars

StorageNext ==
    \/ setItem
    \/ getItem
    \/ removeItem
    \/ clear
    \/ cleanup

StorageStart == EarlyIdle /\ RunsIdle /\ StorageInit /\ PollingIdle /\ RetryIdle /\ CacheIdle

SpecStorage == StorageStart /\ [][StorageNext]_vars

PollingNext ==
    \/ startPolling
    \/ TimerFires
    \/ CheckResolves
    \/ CheckRejects
    \/ stopPolling
    \/ manualRefresh
    \/ RefreshResolves
    \/ RefreshRejects

PollingStart == EarlyIdle /\ RunsIdle /\ StorageIdle /\ PollingInit /\ RetryIdle /\ CacheIdle

SpecPolling == PollingStart /\ [][PollingNext]_vars

RetryNext ==
    \/ withRetry
    \/ OperationResolves
    \/ OperationRejects
    \/ DelayElapses

RetryStart == EarlyIdle /\ RunsIdle /\ StorageIdle /\ PollingIdle /\ RetryInit /\ CacheIdle

\* the operation settles and the delay timer fires
SpecRetry == RetryStart /\ [][RetryNext]_vars /\ WF_vars(RetryNext)

CacheNext ==
    \/ getCachedResult
    \/ setCachedResult
    \/ clearClassificationCache
    \/ setCachePersistence
    \/ TimePasses
    \/ PageReloads

CacheStart == EarlyIdle /\ RunsIdle /\ StorageIdle /\ PollingIdle /\ RetryIdle /\ CacheInit

SpecCache == CacheStart /\ [][CacheNext]_vars

-----------------------------------------------------------------------------
(* Properties *)

Count(seq, x) == Cardinality({ i \in DOMAIN seq : seq[i] = x })

\* all member lists of a map, concatenated in map order
AllMembers(m) == Flatten([i \in DOMAIN m |-> m[i].val])

DedupeReturned == op = "deduplicateNames" /\ outcome = "value"

\* C1: the map deduplicateNames returns places every input position's raw name
\* in exactly one group: the concatenation of the member lists is a permutation
\* of the input list, and no canonical key occurs twice.
C1_EveryNameInExactlyOneGroup ==
    DedupeReturned =>
        /\ Len(AllMembers(groups)) = Len(names)
        /\ \A x \in Range(names) : Count(AllMembers(groups), x) = Count(names, x)
        /\ \A i, j \in DOMAIN groups : groups[i].key = groups[j].key => i = j

\* a returned map in which one group holds a name resolved through the store,
\* a name that founded a new group and a name that joined it
C1_Witness ==
    /\ DedupeReturned
    /\ Len(names) >= 3
    /\ existingMap # {}
    /\ \E g \in DOMAIN groups :
         /\ Len(groups[g].val) >= 3
         /\ \E n \in DOMAIN newGroups :
              newGroups[n].key = groups[g].key /\ Len(newGroups[n].val) >= 2

\* C2: no two entries of the processQueue processPayeeDeduplication returns
\* have the same normalizedName.
C2_QueueHasNoDuplicates ==
    (op \in {"processPayeeDeduplication", "processPayeeDeduplicationSync"}
       /\ pc \in {"upserting", "returned"})
    => \A i, j \in DOMAIN queue :
         queue[i].normalizedName = queue[j].normalizedName => i = j

\* C3: normalizing a normalized name changes nothing.
C3_NormalizationIdempotent ==
    nPc = "renormalized" => nOut2.normalized = nOut.normalized

\* C4: two raw names that differ only in case, in diacritics, in characters of
\* the punctuation class or in a trailing legal suffix have the same normalized
\* form and the same hash.
C4_InessentialDifferencesVanish ==
    nPc = "compared" =>
        /\ nAltOut.normalized = nOut.normalized
        /\ nAltOut.hash = nOut.hash

\* position at which a normalized form first appears among the names handed
\* to local grouping
\* the normalized form of each name handed to local grouping
RemainingNorms == [i \in DOMAIN remaining |-> normalizePayeeName(remaining[i])]

FirstAppearance(norms, norm) == FirstOf({ i \in DOMAIN norms : norms[i] = norm })

Canonicals == Range(MapKeys(newGroups))

\* canonicals already established when the normalized form at position i is reached
EstablishedBefore(norms, i) ==
    { c \in Canonicals : \E k \in 1..(FirstAppearance(norms, norms[i]) - 1) : norms[k] = c }

\* the established canonicals the normalized form at position i is similar to
SimilarEstablished(norms, i) ==
    { c \in EstablishedBefore(norms, i) : areSimilarNames(norms[i], c) }

LocalGroupingDone == op = "deduplicateNames" /\ pc \in {"upserting", "returned", "rejected"}
                       /\ upsertCalls > 0

PlacedByRule(norms, i, home, similar) ==
    /\ Cardinality(home) = 1
    /\ (norms[i] \in Canonicals) = (similar = {})
    /\ \A g \in home :
         IF similar = {}
         THEN newGroups[g].key = norms[i]
         ELSE /\ newGroups[g].key \in similar
              /\ \A c \in similar :
                   FirstAppearance(norms, newGroups[g].key) <= FirstAppearance(norms, c)

AllPlacedByRule(norms) ==
    \A i \in DOMAIN norms :
        PlacedByRule(norms, i,
                     { g \in DOMAIN newGroups : remaining[i] \in Range(newGroups[g].val) },
                     SimilarEstablished(norms, i))

\* C5: in local grouping each unique normalized form, in order of first
\* appearance, joins the group of the earliest-established canonical it is
\* similar to, and becomes its own canonical exactly when it is similar to no
\* established canonical; members are never compared with each other.
C5_EarliestSimilarCanonicalWins == LocalGroupingDone => AllPlacedByRule(RemainingNorms)

\* two names joined the group of the same canonical although they are not
\* similar to each other
C5_Witness ==
    /\ LocalGroupingDone
    /\ \E g \in DOMAIN newGroups :
         \E a, b \in Range(newGroups[g].val) :
            /\ normalizePayeeName(a) # newGroups[g].key
            /\ normalizePayeeName(b) # newGroups[g].key
            /\ ~areSimilarNames(a, b)

\* C6: the list handed to upsertDedupeLinks holds at most one link for any
\* duplicate_normalized value.
C6_OneLinkPerDuplicate ==
    upsertCalls > 0 =>
        \A i, j \in DOMAIN links :
            links[i].duplicate_normalized = links[j].duplicate_normalized => i = j

FuzzyLinkingOn ==
    \/ op = "processPayeeDeduplication" /\ opts.useFuzzyMatching
    \/ op = "enhancedProcessBatch" /\ opts.strategy = "v3" /\ opts.useFuzzyMatching
         /\ opts.thresholdIsNumber

\* pairs <<earlier, later>> of rows with different normalized forms whose
\* combined similarity reaches the threshold
FuzzyPairs ==
    { p \in (DOMAIN names) \X (DOMAIN names) :
        /\ p[1] < p[2]
        /\ Trim(names[p[1]]) # <<>> /\ Trim(names[p[2]]) # <<>>
        /\ normalizePayeeName(names[p[1]]) # normalizePayeeName(names[p[2]])
        /\ calculateCombinedSimilarity(normalizePayeeName(names[p[1]]),
                                       normalizePayeeName(names[p[2]])).combined
             >= opts.similarityThreshold * Scale }

\* C7: with fuzzy duplicate linking on and a numeric threshold,
\* upsertDedupeLinks is called exactly once if a later name reaches the
\* threshold against an earlier one, it is then handed the link from the
\* later name's normalized form to the earlier name's, and every link it is
\* handed joins the normalized forms of an earlier and a later name.
C7_LinksJoinNormalizedForms ==
    (FuzzyLinkingOn /\ pc \in {"upserting", "returned", "rejected"}) =>
        /\ FuzzyPairs # {} => upsertCalls = 1
        /\ \A p \in FuzzyPairs :
             \E k \in DOMAIN links :
                links[k] = Link(normalizePayeeName(names[p[1]]),
                                normalizePayeeName(names[p[2]]))
        /\ \A k \in DOMAIN links :
             \E i, j \in DOMAIN names :
                /\ i < j
                /\ links[k] = Link(normalizePayeeName(names[i]),
                                   normalizePayeeName(names[j]))

\* counts and order of the round-trips of one deduplicateNames call
DedupeRoundTrips ==
    op = "deduplicateNames" =>
        /\ fetchCalls <= 1 /\ storeReads <= 1
        /\ upsertCalls <= 1 /\ storeWrites <= 1
        /\ storeReads <= fetchCalls /\ storeWrites <= upsertCalls
        /\ pc = "fetching" =>
             (fetchCalls = 1 /\ upsertCalls = 0 /\ groups = <<>> /\ newGroups = <<>>
                /\ links = <<>>)
        /\ upsertCalls = 1 => fetchCalls = 1
        /\ outcome = "value" => (fetchCalls = 1 /\ upsertCalls = 1)

\* once the upsert is issued the grouping is final, and the call returns only
\* from the upsert
DedupeUpsertLast ==
    (op = "deduplicateNames" /\ upsertCalls = 1) =>
        /\ groups' = groups /\ newGroups' = newGroups /\ links' = links
        /\ upsertCalls' = 1 /\ fetchCalls' = 1
        /\ outcome' = "value" => pc = "upserting"

\* C8: one deduplicateNames call fetches at most once and upserts at most
\* once whatever the number of names; nothing is grouped while the fetch is
\* outstanding, and the upsert is issued after all grouping and before the
\* return.
C8_OneFetchOneUpsert == []DedupeRoundTrips /\ [][DedupeUpsertLast]_vars

\* a returned call that took both round-trips for a batch with several links
C8_Witness ==
    /\ DedupeReturned
    /\ storeReads = 1 /\ storeWrites = 1
    /\ Len(names) >= 3 /\ Len(links) >= 2

\* C9: when deduplicateNames ends, either every link it computed is in the
\* store or the caller got an error.
C9_LinksWrittenOrError ==
    (op = "deduplicateNames" /\ pc \in {"returned", "rejected"}) =>
        \/ outcome = "error"
        \/ \A k \in DOMAIN links : links[k] \in store

UpsertFailed == pc = "rejected" /\ upsertCalls > 0

\* C10: when upsertDedupeLinks fails, the caller still obtains the value the
\* operation computed.
C10_GroupingSurvivesUpsertFailure ==
    (UpsertFailed /\ op \in {"deduplicateNames", "processPayeeDeduplication"})
        => outcome = "value"

\* C11: malformed name input never raises: normalizeName returns the empty
\* normalization for every empty or non-string value, and
\* processPayeeDeduplication, deduplicateNames and findResultByName complete
\* without throwing when a name handed to them is null, undefined or not a
\* string.
C11_MalformedInputNeverRaises ==
    jsOut.done =>
        /\ ~jsOut.threw
        /\ (jsOp = "normalizeName" /\ (jsArgs[1].type # "string" \/ jsArgs[1].str = <<>>))
              => jsOut.value = normalizeName(<<>>)

\* normalized payeeName of every result handed to findResultByName
ResultNorms == [p \in DOMAIN fResults |-> normalizePayeeName(fResults[p].payeeName)]

\* results whose normalized payeeName equals the normalized target
EqualNorms(norms, target) == { p \in DOMAIN norms : norms[p] = target }

\* the same, among the results that carry a payeeName
NamedEqualNorms(norms, target) ==
    { p \in EqualNorms(norms, target) : fResults[p].payeeName # <<>> }

\* the exact match the lookup has to return: the one on the preferred row
\* when there is one, the first in list order otherwise
ExactChoice(exact) ==
    IF \E p \in exact : fPreferred # NoPreferredIndex /\ fResults[p].rowIndex = fPreferred
    THEN { p \in exact : fResults[p].rowIndex = fPreferred }
    ELSE { FirstOf(exact) }

ReturnsExactChoice(exact) == exact # {} => fReturn \in ExactChoice(exact)

\* C12 as stated: if at least one result's normalized payeeName equals the
\* normalized target, findResultByName returns the exact match on the
\* preferred row when there is one and the first exact match otherwise, never
\* a fuzzy candidate.
C12_ExactMatchPreferred ==
    fPc = "returned" =>
        ReturnsExactChoice(EqualNorms(ResultNorms, normalizePayeeName(fTarget)))

\* C12 amended: the same, among the results that carry a non-empty
\* payeeName; a result without a payeeName is never a match.
C12_ExactMatchPreferredAmongNamed ==
    fPc = "returned" =>
        ReturnsExactChoice(NamedEqualNorms(ResultNorms, normalizePayeeName(fTarget)))

\* two exact matches, the preferred row is the later one, and it is returned
C12_Witness ==
    /\ fPc = "returned"
    /\ fReturn > 1
    /\ fResults[fReturn].rowIndex = fPreferred
    /\ fThreshold = 99
    /\ Cardinality(NamedEqualNorms(ResultNorms, normalizePayeeName(fTarget))) > 1
    /\ fReturn # FirstOf(NamedEqualNorms(ResultNorms, normalizePayeeName(fTarget)))

\* combined similarity of every result's normalized payeeName to the target
ResultSimilarities(norms, target) ==
    [p \in DOMAIN norms |-> calculateCombinedSimilarity(norms[p], target).combined]

\* results reaching the threshold
ReachingThreshold(sims) == { p \in DOMAIN sims : sims[p] >= fThreshold * Scale }

OnPreferredRow(S) ==
    { p \in S : fPreferred # NoPreferredIndex /\ fResults[p].rowIndex = fPreferred }

\* the candidates of maximal similarity, the earliest of them
BestOf(S, sims) ==
    { p \in S : \A q \in S : sims[p] > sims[q] \/ (sims[p] = sims[q] /\ p <= q) }

ReturnsFuzzyChoice(cands, sims) ==
    IF cands = {} THEN fReturn = 0
    ELSE IF OnPreferredRow(cands) # {} THEN fReturn \in OnPreferredRow(cands)
    ELSE fReturn \in BestOf(cands, sims)

NoExactMatch == EqualNorms(ResultNorms, normalizePayeeName(fTarget)) = {}

Named(S) == { p \in S : fResults[p].payeeName # <<>> }

NullExactlyWhenNothingMatches(exact, reaching) ==
    /\ fReturn \in 0..Len(fResults)
    /\ (fReturn = 0) = (exact = {} /\ reaching = {})

\* the lookup leaves the list it was handed as it was
ResultsLeftUnchanged == fPc' = "returned" => fResults' = fResults

\* C14 as stated: findResultByName returns null exactly when no result is an
\* exact normalized match and no result reaches the threshold, and a non-null
\* return value is an element of the results list.
C14_NullOnlyWithoutMatch ==
    fPc = "returned" =>
        NullExactlyWhenNothingMatches(
            EqualNorms(ResultNorms, normalizePayeeName(fTarget)),
            ReachingThreshold(ResultSimilarities(ResultNorms, normalizePayeeName(fTarget))))

NullOnlyWithoutNamedMatch ==
    fPc = "returned" =>
        NullExactlyWhenNothingMatches(
            NamedEqualNorms(ResultNorms, normalizePayeeName(fTarget)),
            Named(ReachingThreshold(
                ResultSimilarities(ResultNorms, normalizePayeeName(fTarget)))))

\* C14 amended: findResultByName returns null exactly when no result with a
\* non-empty payeeName is an exact normalized match or reaches the
\* threshold; a non-null return value is an element of the results list, and
\* the list is left unchanged.
C14_NullOnlyWithoutNamedMatch ==
    []NullOnlyWithoutNamedMatch /\ [][ResultsLeftUnchanged]_vars

\* null is returned although the list holds a near miss of the target
C14_Witness ==
    /\ fPc = "returned"
    /\ fReturn = 0
    /\ fThreshold = 99
    /\ \E p \in DOMAIN fResults :
         ResultSimilarities(ResultNorms, normalizePayeeName(fTarget))[p]
           >= DefaultFindThreshold * Scale

AllScores(sc, x) ==
    /\ sc.levenshtein = x
    /\ sc.jaroWinkler = x
    /\ sc.dice = x
    /\ sc.tokenSort = x
    /\ sc.combined = x

\* C15: on each of the four metrics and on the combined score, identical
\* strings score 100 (one-character and empty strings included), an empty
\* string against a non-empty one scores 0, and two different one-character
\* strings score 0.
C15_EdgeCaseScores ==
    sPc = "scored" =>
        /\ sA = sB => AllScores(sOut.scores, Hundred)
        /\ ((sA = <<>>) # (sB = <<>>)) => AllScores(sOut.scores, 0)
        /\ (Len(sA) = 1 /\ Len(sB) = 1 /\ sA # sB) => AllScores(sOut.scores, 0)

\* two identical one-character strings have been scored
C15_Witness ==
    /\ sPc = "scored"
    /\ Len(sA) = 1
    /\ sA = sB
    /\ sOut.scores.dice = Hundred

\* the weighted sum of the four metric scores of a score set
WeightedSum(sc, w) ==
    (w.levenshtein * sc.levenshtein + w.jaroWinkler * sc.jaroWinkler
     + w.dice * sc.dice + w.tokenSort * sc.tokenSort) \div 100

\* C16: calculateCombinedSimilarity fails, returning no score set, whenever
\* the weights do not sum to 1; with weights that sum to 1 it never fails and
\* combined is the weighted sum of the four metric scores, so that with
\* weight 1 on one metric combined equals that metric.
C16_WeightsMustSumToOne ==
    sPc = "weighted" =>
        /\ sOut.threw = (WeightSum(sWeights) # 100)
        /\ sOut.threw => sOut.scores = <<>>
        /\ ~sOut.threw =>
             /\ sOut.scores.combined = WeightedSum(sOut.scores, sWeights)
             /\ sWeights.levenshtein = 100 => sOut.scores.combined = sOut.scores.levenshtein
             /\ sWeights.jaroWinkler = 100 => sOut.scores.combined = sOut.scores.jaroWinkler
             /\ sWeights.dice = 100 => sOut.scores.combined = sOut.scores.dice
             /\ sWeights.tokenSort = 100 => sOut.scores.combined = sOut.scores.tokenSort

\* weights summing to 1.5 were rejected for two identical strings
C16_Witness ==
    /\ sPc = "weighted"
    /\ sOut.threw
    /\ WeightSum(sWeights) = 150
    /\ sA = sB
    /\ sA # <<>>

\* the jobs of a list, each reduced to its id and status
JobsOf(list) == { [id |-> list[k].id, status |-> list[k].status] : k \in DOMAIN list }

\* C17: after any sequence of addJob, updateJob and deleteJob calls,
\* loadJobs returns exactly the jobs that were added and not deleted since,
\* each carrying its latest update, whether storage writes succeed or have
\* started failing at some point.
C17_LoadReturnsLiveJobs ==
    jPc = "loaded" =>
        /\ JobsOf(loaded) = live
        /\ Len(loaded) = Cardinality(live)

\* C18: loadJobs returns the jobs ordered by created_at descending, most
\* recently added first, whichever storage tier holds them.
C18_LoadedNewestFirst ==
    jPc = "loaded" =>
        \A i, k \in DOMAIN loaded : i < k => loaded[i].created_at >= loaded[k].created_at

\* the canonical of the local group the name at position i of remaining is in
LocalCanonical(i) ==
    newGroups[FirstOf({ g \in DOMAIN newGroups :
                          remaining[i] \in Range(newGroups[g].val) })].key

\* the locally grouped names whose normalized form is not their canonical
NewDuplicates(norms) == { i \in DOMAIN norms : norms[i] # LocalCanonical(i) }

\* the canonical the fetched map stores for the name at position i of names
StoredCanonical(i) == ExistingGet(existingMap, normalizePayeeName(names[i]))

\* the names resolved through an existing store mapping
Resolved == { i \in DOMAIN names : Truthy(StoredCanonical(i)) }

LinksMatchNewDuplicates(norms, dups) ==
    /\ Len(links) = Cardinality(dups)
    /\ \A i \in dups : \E k \in DOMAIN links : links[k] = Link(LocalCanonical(i), norms[i])
    /\ \A k \in DOMAIN links :
         /\ \E i \in dups : links[k] = Link(LocalCanonical(i), norms[i])
         /\ links[k].duplicate_normalized # links[k].canonical_normalized
         /\ \A i \in Resolved :
              links[k].duplicate_normalized # normalizePayeeName(names[i])

\* C19: deduplicateNames emits a link for exactly the newly grouped names
\* whose normalized form differs from their group's canonical: none for a
\* name whose normalized form is its canonical, none for a name resolved
\* through an existing store mapping.
C19_LinksForNewDuplicatesOnly ==
    LocalGroupingDone => LinksMatchNewDuplicates(RemainingNorms, NewDuplicates(RemainingNorms))

\* a batch with a resolved name, a new canonical and a new duplicate, for
\* which exactly one link was emitted
C19_Witness ==
    /\ LocalGroupingDone
    /\ Resolved # {}
    /\ Len(links) = 1
    /\ Len(remaining) = 2

\* the names without a store mapping, in input order
RECURSIVE Unresolved(_)
Unresolved(i) ==
    IF i > Len(names) THEN <<>>
    ELSE (IF i \in Resolved THEN <<>> ELSE <<names[i]>>) \o Unresolved(i + 1)

\* the groups a name is a member of
GroupsOf(name) == { g \in DOMAIN groups : name \in Range(groups[g].val) }

CombinedReaches(a, b) ==
    calculateCombinedSimilarity(a, b).combined >= DefaultSimilarityThreshold * Scale

JoinsByCombinedScore(norms) ==
    \A i \in DOMAIN norms :
        \A g \in DOMAIN newGroups :
            remaining[i] \in Range(newGroups[g].val) =>
                IF newGroups[g].key # norms[i]
                THEN CombinedReaches(norms[i], newGroups[g].key)
                ELSE \A c \in EstablishedBefore(norms, i) : ~CombinedReaches(norms[i], c)

\* C21: in the second pass of local grouping a unique normalized form joins
\* an existing group if and only if its combined similarity to that group's
\* canonical reaches similarityThreshold; no other metric or threshold
\* decides.
C21_JoinsByCombinedSimilarity == LocalGroupingDone => JoinsByCombinedScore(RemainingNorms)

\* a result map as a partition: each canonical key with the names under it,
\* counted, in no order
PartitionOf(gs) ==
    { <<gs[g].key, [n \in Range(gs[g].val) |-> Count(gs[g].val, n)]>> : g \in DOMAIN gs }

\* the last run was given the batch of the run before it, which started on
\* an empty table, returned, and whose links are in the table
RerunAfterFirstRun ==
    /\ rConfigured
    /\ rPrev.outcome = "value"
    /\ rPrev.storeBefore = {}
    /\ rLast.outcome = "value"
    /\ rLast.storeBefore = UpsertRows({}, rPrev.links)

\* C22: deduplicateNames run again on the same names, after the links of a
\* first run on an empty store were persisted, yields the same partition of
\* the names into groups under the same canonical keys and emits no links.
C22_RerunSamePartitionNoLinks ==
    RerunAfterFirstRun =>
        /\ PartitionOf(rLast.groups) = PartitionOf(rPrev.groups)
        /\ rLast.links = <<>>

\* C23: after any sequence of deduplicateNames runs against a store that
\* starts empty, no persisted link's canonical_normalized is itself the
\* duplicate_normalized of a persisted link, and no link maps a name to
\* itself.
C23_ResolutionStaysOneHop ==
    \A l \in rStore :
        /\ l.canonical_normalized # l.duplicate_normalized
        /\ \A k \in rStore : k.duplicate_normalized # l.canonical_normalized

PpdLoopDone ==
    /\ op \in {"processPayeeDeduplication", "processPayeeDeduplicationSync"}
    /\ pc \in {"upserting", "returned"}

\* the entries of processQueue for input index i (1-based here)
QueuedAt(i) == { k \in DOMAIN queue : queue[k].originalIndex = i - 1 }

\* the entries of results for input index i
ResultsAt(i) == { k \in DOMAIN results : results[k].rowIndex = i - 1 }

\* C24: processPayeeDeduplication accounts for every non-blank input exactly
\* once: an index whose trimmed name is non-empty appears once in
\* processQueue or once in results, never in both; a blank name appears in
\* neither; processQueue is in strictly increasing originalIndex order.
C24_EveryNonBlankInputOnce ==
    PpdLoopDone =>
        /\ \A i \in DOMAIN names :
             Cardinality(QueuedAt(i)) + Cardinality(ResultsAt(i))
                = (IF Trim(names[i]) = <<>> THEN 0 ELSE 1)
        /\ \A k \in DOMAIN queue : queue[k].originalIndex + 1 \in DOMAIN names
        /\ \A k \in DOMAIN results : results[k].rowIndex + 1 \in DOMAIN names
        /\ \A k, l \in DOMAIN queue :
             k < l => queue[k].originalIndex < queue[l].originalIndex

\* a batch with a blank name ahead of two queued names
C24_Witness ==
    /\ PpdLoopDone
    /\ Len(names) = 3
    /\ Trim(names[1]) = <<>>
    /\ Len(queue) = 2

IdsOf(list) == { list[k].id : k \in DOMAIN list }

\* an addJob step, made while the storage item exists and writes succeed,
\* leaves under STORAGE_KEY every job that was there, and the job added
AddJobKeepsPersisted ==
    (jPc' = "added" /\ storageAvailable /\ ~writesFail /\ stored.present)
      => \A id \in IdsOf(stored.jobs) \cup (IdsOf(jobs') \ IdsOf(jobs)) :
            id \in IdsOf(stored'.jobs)

\* C25: addJob never drops jobs that are already persisted: when storage
\* holds jobs as a BatchJobService instance is created, then after addJob of
\* a new job, with or without a preceding loadJobs, storage holds the
\* previously persisted jobs and the new one.
C25_AddJobKeepsPersistedJobs == [][AddJobKeepsPersisted]_vars

\* C26: the unified storage service gives read-your-writes: after
\* setItem(k, v) returned true, getItem(k) returns v until the next setItem,
\* removeItem or clear of k, also when the write fell back to memory because
\* localStorage rejected it while still holding an older value for k.
C26_ReadYourWrites ==
    (svPc = "read" /\ svWritten[svRead.key] # NoItem)
        => svRead.value = svWritten[svRead.key]

\* C27: automatic polling of a batch job stops after three consecutive
\* failed status checks: once checkBatchJobStatus has thrown three times in
\* a row, no timer is scheduled for the job and isPolling is false; a
\* successful check in between resets the count.
C27_PollingStopsAfterThreeFailures ==
    pFailRun >= MaxConsecutiveFailures => (pTimers = {} /\ ~pState.isPolling)

\* C28: after stopPolling(jobId) returns, no status check is issued for the
\* job and no timer remains scheduled for it until startPolling or
\* manualRefresh is called again, also when stopPolling runs while a check
\* is in flight; and calling startPolling twice never leaves two polling
\* loops running for the same job.
C28_StopPollingStopsTheLoop ==
    /\ pStopped => (pTimers = {} /\ ~pIssued)
    /\ Cardinality(pTimers) + Cardinality(pChecks) <= 1

RetryEnded == wPc \in { "returned", "thrown" }

\* an Error whose message contains '401' or 'authentication'
AuthenticationError(error) ==
    /\ error.isError
    /\ \E i \in DOMAIN error.message :
         \/ StartsAt(error.message, i, Text401)
         \/ StartsAt(error.message, i, TextAuthentication)

\* the calls of operation() before the last one
EarlierAttempts == 1..(Len(wOutcomes) - 1)

AttemptsWithinLimit ==
    /\ Len(wOutcomes) <= wMaxRetries + 1
    /\ \A k \in EarlierAttempts :
         ~wOutcomes[k].ok /\ ~AuthenticationError(wOutcomes[k].error)

RetryResult ==
    /\ wPc = "returned" => wOutcomes[Len(wOutcomes)].ok
    /\ wPc = "thrown" =>
         /\ ~wOutcomes[Len(wOutcomes)].ok
         /\ wLastError = wOutcomes[Len(wOutcomes)].error
         /\ (AuthenticationError(wLastError) \/ Len(wOutcomes) = wMaxRetries + 1)

\* C29: withRetry always terminates: it runs the operation at most
\* maxRetries + 1 times, returns the first successful result without a
\* further attempt, makes no further attempt after an error whose message
\* contains '401' or 'authentication', and otherwise fails with the error of
\* the last attempt.
C29_WithRetryTerminates ==
    /\ [](AttemptsWithinLimit /\ (RetryEnded => RetryResult))
    /\ <>RetryEnded

\* a call that retried after an ordinary error and then gave up on an
\* authentication error, before its attempts were used up
C29_Witness ==
    /\ wPc = "thrown"
    /\ Len(wOutcomes) = 2
    /\ wMaxRetries = MAX_RETRIES
    /\ AuthenticationError(wLastError)

\* the keys of the entries in Map order
KeyOrder(entries) == [i \in DOMAIN entries |-> entries[i].key]

\* the list without one key
RECURSIVE Without(_, _)
Without(keys, key) ==
    IF keys = <<>> THEN <<>>
    ELSE IF Head(keys) = key THEN Without(Tail(keys), key)
    ELSE <<Head(keys)>> \o Without(Tail(keys), key)

CacheWithinLimit == Len(cCache) <= MAX_CACHE_SIZE

\* a result is cached under a key while the cache holds MAX_CACHE_SIZE entries
InsertionIntoFullCache ==
    /\ setCachedResult
    /\ cLast'.key # <<>>
    /\ Len(cCache) = MAX_CACHE_SIZE

\* the first entry of the Map is gone, every other entry is kept in its
\* order, and the key is cached with the present time
EvictsEarliest ==
    /\ Without(KeyOrder(cCache'), cLast'.key)
         = Without(KeyOrder(Tail(cCache)), cLast'.key)
    /\ CachePosition(cCache', cLast'.key) # 0
    /\ cCache'[CachePosition(cCache', cLast'.key)].timestamp = cNow
    /\ cLast'.key # Head(cCache).key => CachePosition(cCache', Head(cCache).key) = 0

\* C30: after any sequence of cache lookups, cache insertions and
\* clearClassificationCache calls the in-memory classification cache holds at
\* most MAX_CACHE_SIZE entries, and an insertion into a full cache evicts
\* exactly one entry, the one inserted earliest.
C30_CacheBoundedEvictsEarliest ==
    /\ []CacheWithinLimit
    /\ [][InsertionIntoFullCache => EvictsEarliest]_vars

\* a new key has just been cached in a cache that was full: the cache is
\* full again and the new key is its last entry
C30_Witness ==
    /\ cLast.op = "set"
    /\ cLast.full
    /\ ~cLast.found
    /\ Len(cCache) = MAX_CACHE_SIZE
    /\ cCache[Len(cCache)].key = cLast.key
    /\ \A i \in DOMAIN cCache : cCache[i].timestamp < cNow \/ i = Len(cCache)

====
